---- MODULE Spec2Model ----
(***************************************************************************)
(* A model of the DIALS-to-imgCIF converter (Tools/dials2imgcif.py) and of  *)
(* the two-theta routine of the imgCIF_Creator DIALS extractor.            *)
(*                                                                         *)
(* make_cif is modelled as a sequential program: one action per call it    *)
(* makes, a program counter pc, and the output stream outf as the sequence *)
(* of blocks written so far.  The experiment list, the download locations  *)
(* and the options are chosen in the initial state.                        *)
(*                                                                         *)
(* Numbers.  Direction vectors are integer triples in units of 1/Scale     *)
(* (Scale = 20000, one unit = 5e-5), so the 1e-4 and 1e-3 tolerances of    *)
(* the code are 2 and 20 units.  Rotations are <<angle, axis>> with the     *)
(* angle in units of 1/Scale radians; they are applied by Rodrigues'       *)
(* formula, exactly for a quarter turn and to first order for the small    *)
(* angles (at most 1.5e-3 rad) the inputs contain.  Angles that reach the  *)
(* output are in units of 1e-4 degree, lengths in units of 1e-4 mm.        *)
(* A function that can raise returns a record whose field err names the    *)
(* exception ("" when it returns normally).                                *)
(***************************************************************************)
EXTENDS Integers, Sequences, FiniteSets, TLC

\* ------------------------------------------------------------------ bounds
MaxScans == 3
MaxFrames == 3
MaxGeomScans == 2

\* ------------------------------------------------------- program constants
\* np.inf, the default of scan_frame_limit / frame_limit: "no truncation".
NoLimit == -1

Scale == 2 * 10000
\* 0.0001 (find_perp_panel abs_tol, get_two_theta, get_axes_info z check)
Tol4 == Scale \div 10000
\* 0.001 (Extractor._get_two_theta)
Tol3 == Scale \div 1000
\* pi/2 in units of 1/Scale radians
QuarterTurn == (314159 * (Scale \div 10000)) \div 20
\* 90 degrees in units of 1e-4 degree
Deg90 == 90 * 10000

GONIO_DEFAULT_AXIS == <<"Omega">>

\* the values None and "." of the code
None == <<"None">>
\* None where the other values are strings
NoneStr == "None"
Dot == <<".">>

\* axis names are one-element tuples, so that they compare with ele<i>_fast
TwoTheta == <<"Two_Theta">>
Trans == <<"Trans">>

\* ----------------------------------------------------------- arithmetic
Abs(x) == IF x < 0 THEN -x ELSE x

Min(a, b) == IF a <= b THEN a ELSE b

\* x / d rounded to the nearest integer (d > 0 and even, or x a multiple of d)
RDiv(x, d) == (x + d \div 2) \div d

RECURSIVE SqrtIter(_, _)
SqrtIter(n, x) ==
    LET y == (x + n \div x) \div 2
    IN IF y >= x THEN x ELSE SqrtIter(n, y)

\* floor of the square root
ISqrt(n) == IF n <= 0 THEN 0 ELSE SqrtIter(n, n \div 2 + 1)

RECURSIVE SumSeq(_)
SumSeq(s) == IF s = <<>> THEN 0 ELSE s[1] + SumSeq(Tail(s))

RECURSIVE Digits(_)
\* str(n) for n >= 0, as the sequence of its decimal digits
Digits(n) == IF n < 10 THEN <<n>> ELSE Append(Digits(n \div 10), n % 10)

\* ----------------------------------------------------------- vectors
Vec(x, y, z) == <<x, y, z>>

VDot(a, b) == a[1] * b[1] + a[2] * b[2] + a[3] * b[3]

\* np.cross of two vectors whose product is scaled back by Scale
VCross(a, b) ==
    << RDiv(a[2] * b[3] - a[3] * b[2], Scale),
       RDiv(a[3] * b[1] - a[1] * b[3], Scale),
       RDiv(a[1] * b[2] - a[2] * b[1], Scale) >>

VNeg(a) == << -a[1], -a[2], -a[3] >>

VSub(a, b) == << a[1] - b[1], a[2] - b[2], a[3] - b[3] >>

VAdd(a, b) == << a[1] + b[1], a[2] + b[2], a[3] + b[3] >>

\* np.linalg.norm, rounded to the unit
VNorm(a) ==
    LET n2 == VDot(a, a)
        r == ISqrt(n2)
    IN IF n2 - r * r > r THEN r + 1 ELSE r

\* v / np.linalg.norm(v), in units of 1/Scale
VUnit(a) ==
    LET n == VNorm(a)
    IN << RDiv(a[1] * Scale, n), RDiv(a[2] * Scale, n), RDiv(a[3] * Scale, n) >>

\* k * v for a vector v and a scalar k in units of 1/Scale
VScale(k, a) == << RDiv(k * a[1], Scale), RDiv(k * a[2], Scale), RDiv(k * a[3], Scale) >>

XHat == Vec(Scale, 0, 0)
BeamOpp == Vec(0, 0, -Scale)


\* np.around(v, decimals=3) of a direction vector (1e-3 is 20 units)
Around3(a) ==
    LET q == Scale \div 1000
    IN << RDiv(a[1], q) * q, RDiv(a[2], q) * q, RDiv(a[3], q) * q >>

\* np.around(v, decimals=3) of a length vector in units of 1e-4 mm
Around3Len(a) == << RDiv(a[1], 10) * 10, RDiv(a[2], 10) * 10, RDiv(a[3], 10) * 10 >>

\* ----------------------------------------------------------- rotations
\* scipy Rotation as <<angle, axis>>; R.identity() is the zero angle.
RIdentity == [angle |-> 0, axis |-> Vec(0, 0, 0)]

\* R.align_vectors(a, b) for one pair of unit vectors: the shortest-arc
\* rotation that takes b to a.  asin(s) is s for the small angles modelled.
AlignVectors(a, b) ==
    LET c == VCross(b, a)
        s == VNorm(c)
        d == RDiv(VDot(a, b), Scale)
    IN IF s = 0 THEN RIdentity
       ELSE [angle |-> IF d = 0 THEN QuarterTurn ELSE s, axis |-> VUnit(c)]

\* Rotation.apply(v) (also np.dot(as_matrix(), v)): Rodrigues' formula
RotApply(rot, v) ==
    IF rot.angle = 0 THEN v
    ELSE IF rot.angle = QuarterTurn
         THEN VAdd(VCross(rot.axis, v),
                   VScale(RDiv(VDot(rot.axis, v), Scale), rot.axis))
         ELSE VAdd(v, VScale(rot.angle, VCross(rot.axis, v)))

\* np.linalg.norm(as_rotvec(degrees=True)): the angle in units of 1e-4 degree
RotAngleDeg(rot) ==
    IF rot.angle = QuarterTurn THEN Deg90 ELSE RDiv(rot.angle * 28648, 1000)

\* ordered dictionaries: sequences of entries with a field "id"
DictKeys(d) == [i \in 1..Len(d) |-> d[i].id]

DictHas(d, k) == \E i \in 1..Len(d) : d[i].id = k

DictGet(d, k) == d[CHOOSE i \in 1..Len(d) : d[i].id = k]

\* d[k] = entry: replaces the value of an existing key in place
DictSet(d, entry) ==
    IF DictHas(d, entry.id)
    THEN [i \in 1..Len(d) |-> IF d[i].id = entry.id THEN entry ELSE d[i]]
    ELSE Append(d, entry)

\* =================================================================
\* Geometry (dials2imgcif.py)
\* =================================================================
\* the unit normal of a panel in the rotated frame:
\* cross(rot(fast), rot(slow)) / norm
PanelNormal(panel, axis_rotation) ==
    VUnit(VCross(RotApply(axis_rotation, panel.fast),
                 RotApply(axis_rotation, panel.slow)))

\* a variant of GonAxisEntry with names[i] for names[i + 1]
GonAxisEntrySelf(expts, names, i) ==
    [id |-> names[i],
     axis |-> expts[1].goniometer.axes[i],
     hasvals |-> TRUE,
     vals |-> [e \in 1..Len(expts) |-> expts[e].goniometer.angles[i]],
     next |-> IF i = Len(names) THEN Dot ELSE names[i]]

\* get_gon_axes: the goniometer axes of the first experiment
GonAxisEntry(expts, names, i) ==
    [id |-> names[i],
     axis |-> expts[1].goniometer.axes[i],
     hasvals |-> TRUE,
     vals |-> [e \in 1..Len(expts) |-> expts[e].goniometer.angles[i]],
     next |-> IF i = Len(names) THEN Dot ELSE names[i + 1]]

RECURSIVE GonAxisDict(_, _, _)
GonAxisDict(expts, names, n) ==
    IF n = 0 THEN <<>>
    ELSE DictSet(GonAxisDict(expts, names, n - 1), GonAxisEntry(expts, names, n))

get_gon_axes(expts) ==
    LET gon0 == expts[1].goniometer
    IN IF gon0.multi
       THEN IF \E e \in 2..Len(expts) :
                    \/ ~expts[e].goniometer.multi
                    \/ expts[e].goniometer.names # gon0.names
            THEN [err |-> "AssertionError", axes |-> <<>>]
            ELSE [err |-> "", axes |-> GonAxisDict(expts, gon0.names, Len(gon0.names))]
       ELSE [err |-> "",
             axes |-> << [id |-> GONIO_DEFAULT_AXIS,
                          axis |-> gon0.axes[1],
                          hasvals |-> FALSE,
                          vals |-> <<>>,
                          next |-> Dot] >>]

\* the least element of a set of indices, 0 for the empty set
FirstOrZero(S) == IF S = {} THEN 0 ELSE CHOOSE i \in S : \A j \in S : i <= j

\* find_perp_panel: the first panel (1-based) whose normal has x component
\* within 1e-4 of zero; 0 is None
find_perp_panel(d_info, axis_rotation) ==
    FirstOrZero({i \in 1..Len(d_info) :
                    Abs(PanelNormal(d_info[i], axis_rotation)[1]) <= Tol4})

\* get_two_theta, from the aligning rotation: (tth_angl, tth_axis)
TwoThetaOfRotation(rot_obj) ==
    [err |-> "", angl |-> RotAngleDeg(rot_obj), axis |-> rot_obj.axis]

\* get_two_theta, from the normal that points away from the sample
TwoThetaOfNormal(p_onrm) ==
    LET delta == VSub(p_onrm, BeamOpp)
    IN IF VDot(delta, delta) < Tol4 * Tol4
       THEN [err |-> "", angl |-> 0, axis |-> None]
       ELSE TwoThetaOfRotation(AlignVectors(BeamOpp, p_onrm))

\* if p_onrm[2] > 0: p_onrm *= -1.0
AwayFromSample(p_onrm) == IF p_onrm[3] > 0 THEN VNeg(p_onrm) ELSE p_onrm

\* get_two_theta, from the index of the perpendicular panel
TwoThetaOfPanel(detector, axis_rotation, pp) ==
    IF pp = 0
    THEN [err |-> "TypeError", angl |-> 0, axis |-> None]
    ELSE TwoThetaOfNormal(AwayFromSample(PanelNormal(detector[pp], axis_rotation)))

\* get_two_theta: (tth_angl, tth_axis) of one detector
get_two_theta(detector, axis_rotation) ==
    TwoThetaOfPanel(detector, axis_rotation, find_perp_panel(detector, axis_rotation))

\* get_distance: |origin . normal| of one panel, in units of 1e-4 mm
get_distance(panel, axis_rotation) ==
    Abs(RDiv(VDot(RotApply(axis_rotation, panel.origin),
                  PanelNormal(panel, axis_rotation)), Scale))

\* get_det_axes, from pp and the two-theta of every scan
DetAxesOf(expts, axis_rotation, pp, axis_info) ==
    LET poss == {e \in 1..Len(expts) : axis_info[e].axis # None}
        tth == IF poss = {} THEN <<>>
               ELSE << [id |-> TwoTheta,
                        axis |-> axis_info[FirstOrZero(poss)].axis,
                        vals |-> [e \in 1..Len(expts) |-> axis_info[e].angl],
                        next |-> Dot,
                        type |-> "rotation"] >>
    IN IF pp = 0 THEN [err |-> "AssertionError", axes |-> <<>>]
       ELSE IF \E e \in 1..Len(expts) : axis_info[e].err # ""
       THEN [err |-> "TypeError", axes |-> <<>>]
       ELSE IF \E e \in 1..Len(expts) : Len(expts[e].detector) < pp
       THEN [err |-> "IndexError", axes |-> <<>>]
       ELSE [err |-> "",
             axes |-> tth \o
                 << [id |-> Trans,
                     axis |-> Vec(0, 0, -Scale),
                     vals |-> [e \in 1..Len(expts) |->
                                  get_distance(expts[e].detector[pp], axis_rotation)],
                     next |-> IF poss # {} THEN TwoTheta ELSE Dot,
                     type |-> "translation"] >>]

\* get_det_axes: Two_Theta (when some scan has one) and Trans
get_det_axes(expts, axis_rotation) ==
    DetAxesOf(expts, axis_rotation,
              find_perp_panel(expts[1].detector, axis_rotation),
              [e \in 1..Len(expts) |-> get_two_theta(expts[e].detector, axis_rotation)])

\* the name of the pixel axes of panel i: f'ele{i}_fast', f'ele{i}_slow'
EleAxis(i, which) == <<"ele", i, which>>

\* a variant of SrfPanelAxes in which the slow axis depends on Trans too
SrfPanelAxesOnTrans(panel, i, axis_rotation, tth) ==
    << [id |-> EleAxis(i, "fast"),
        axis |-> RotApply(axis_rotation, panel.fast),
        next |-> Trans,
        origin |-> Vec(0, 0, 0),
        pix_size |-> panel.pixel_size[1],
        num_pix |-> panel.image_size[1],
        prec |-> 1,
        element |-> i],
       [id |-> EleAxis(i, "slow"),
        axis |-> RotApply(axis_rotation, panel.slow),
        next |-> Trans,
        origin |-> Vec(0, 0, 0),
        pix_size |-> panel.pixel_size[2],
        num_pix |-> panel.image_size[2],
        prec |-> 2,
        element |-> i] >>

\* get_srf_axes: the two pixel axes of every panel of the first detector,
\* un-rotated by the first detector's two-theta when it has one
SrfPanelAxes(panel, i, axis_rotation, tth) ==
    LET fast0 == RotApply(axis_rotation, panel.fast)
        slow0 == RotApply(axis_rotation, panel.slow)
        origin0 == RotApply(axis_rotation, panel.origin)
        rot == [angle |-> IF tth.angl = Deg90 THEN QuarterTurn ELSE RDiv(tth.angl * 1000, 28648),
                axis |-> tth.axis]
        unrot == tth.axis # None
        fast == IF unrot THEN Around3(RotApply(rot, fast0)) ELSE fast0
        slow == IF unrot THEN Around3(RotApply(rot, slow0)) ELSE slow0
        origin1 == IF unrot THEN Around3Len(RotApply(rot, origin0)) ELSE origin0
    IN << [id |-> EleAxis(i, "fast"),
           axis |-> fast,
           next |-> Trans,
           origin |-> Vec(origin1[1], origin1[2], 0),
           pix_size |-> panel.pixel_size[1],
           num_pix |-> panel.image_size[1],
           prec |-> 1,
           element |-> i],
          [id |-> EleAxis(i, "slow"),
           axis |-> slow,
           next |-> EleAxis(i, "fast"),
           origin |-> Vec(0, 0, 0),
           pix_size |-> panel.pixel_size[2],
           num_pix |-> panel.image_size[2],
           prec |-> 2,
           element |-> i] >>

RECURSIVE SrfAxisDict(_, _, _, _)
SrfAxisDict(d_info, n, axis_rotation, tth) ==
    IF n = 0 THEN <<>>
    ELSE SrfAxisDict(d_info, n - 1, axis_rotation, tth)
             \o SrfPanelAxes(d_info[n], n, axis_rotation, tth)

PanelNames(detector) == [i \in 1..Len(detector) |-> detector[i].name]

SrfAxesOf(expts, axis_rotation, tth) ==
    LET d_info == expts[1].detector
    IN IF \E e \in 2..Len(expts) : PanelNames(expts[e].detector) # PanelNames(d_info)
       THEN [err |-> "AssertionError", axes |-> <<>>]
       ELSE IF tth.err # "" THEN [err |-> tth.err, axes |-> <<>>]
       ELSE [err |-> "", axes |-> SrfAxisDict(d_info, Len(d_info), axis_rotation, tth)]

get_srf_axes(expts, axis_rotation) ==
    SrfAxesOf(expts, axis_rotation, get_two_theta(expts[1].detector, axis_rotation))

\* np.allclose(primary_axis, [1, 0, 0]): equal at the resolution of the model
AllCloseXHat(v) == v = XHat

\* a variant of FrameRotation with the arguments of align_vectors exchanged
FrameRotationInverse(primary_axis) ==
    IF AllCloseXHat(primary_axis) THEN RIdentity ELSE AlignVectors(primary_axis, XHat)

\* the rotation get_axes_info computes from the primary goniometer axis
FrameRotation(primary_axis) ==
    IF AllCloseXHat(primary_axis) THEN RIdentity ELSE AlignVectors(XHat, primary_axis)

AxesFail(e) == [err |-> e, g |-> <<>>, d |-> <<>>, s |-> <<>>]

\* get_axes_info, once the three dictionaries are there
AxesResult(gon_axes, det, srf) ==
    IF det.err # "" THEN AxesFail(det.err)
    ELSE IF srf.err # "" THEN AxesFail(srf.err)
    ELSE [err |-> "", g |-> gon_axes, d |-> det.axes, s |-> srf.axes]

\* get_axes_info, once axis_rotation is there: every goniometer axis is
\* rotated, and the detector functions get the same rotation
AxesRotated(expts, gon_axes, axis_rotation) ==
    AxesResult([i \in 1..Len(gon_axes) |->
                   [gon_axes[i] EXCEPT !.axis = RotApply(axis_rotation, @)]],
               get_det_axes(expts, axis_rotation),
               get_srf_axes(expts, axis_rotation))

\* get_axes_info, from the result of get_gon_axes
AxesOfGon(expts, gon) ==
    LET primary == {i \in 1..Len(gon.axes) : gon.axes[i].next = Dot}
        primary_axis == gon.axes[FirstOrZero(primary)].axis
    IN IF gon.err # "" THEN AxesFail(gon.err)
       ELSE IF Cardinality(primary) # 1 THEN AxesFail("AssertionError")
       ELSE IF Abs(primary_axis[3]) > Tol4 THEN AxesFail("ValueError")
       ELSE AxesRotated(expts, gon.axes, FrameRotation(primary_axis))

\* get_axes_info: (gon_axes, det_axes, srf_axes) in the frame whose x is the
\* primary goniometer axis
get_axes_info(expts) == AxesOfGon(expts, get_gon_axes(expts))

\* =================================================================
\* Output (dials2imgcif.py)
\* =================================================================
\* A row of a loop: its cells, and whether its first cell is a string
\* that starts with '#'.
Row(cells) == [cells |-> cells, hash |-> FALSE]

\* (f"# - {n_cut} rows cut for preview -",)
CutRow(n_cut) == [cells |-> << <<"# rows cut for preview", n_cut>> >>, hash |-> TRUE]

\* format(v, '.2f') and format(v, '.4f') of a value in units of 1e-4
Fmt2(v) == <<"%.2f", RDiv(v, 100)>>
Fmt4(v) == <<"%.4f", v>>
\* the float literal 0.
Float0 == <<"float", 0>>

\* f"SCAN.{i}", f"frm{i}", f"ELEMENT{i}"
ScanId(i) == <<"SCAN.">> \o Digits(i)
FrameId(i) == <<"frm">> \o Digits(i)
ElementId(i) == <<"ELEMENT">> \o Digits(i)

Block(name, fields, rows) == [name |-> name, fields |-> fields, rows |-> rows]

\* cif_loop without the exemption of comment rows
cif_loop_strict(base_name, fields, rows) ==
    IF \E i \in 1..Len(rows) : Len(rows[i].cells) # Len(fields)
    THEN [err |-> "ValueError", text |-> <<>>]
    ELSE [err |-> "", text |-> << Block(base_name, fields, rows) >>]

\* cif_loop: the loop_ block, or ValueError when a row that is not a
\* comment row has not one cell per field
cif_loop(base_name, fields, rows) ==
    IF \E i \in 1..Len(rows) :
           /\ ~(Len(rows[i].cells) = 1 /\ rows[i].hash)
           /\ Len(rows[i].cells) # Len(fields)
    THEN [err |-> "ValueError", text |-> <<>>]
    ELSE [err |-> "", text |-> << Block(base_name, fields, rows) >>]

\* CIF_HEADER.format(name=data_name), then write_doi with doi = None
write_header(data_name) == << Block("data_", <<data_name>>, <<>>) >>

\* write_beam_info
write_beam_info(expts) ==
    LET wl == expts[1].wavelength
    IN IF \E e \in 2..Len(expts) : expts[e].wavelength # wl
       THEN [err |-> "AssertionError", text |-> <<>>]
       ELSE [err |-> "",
             text |-> << Block("_diffrn_radiation_wavelength",
                               <<"id", "value">>, << Row(<<1, wl>>) >>) >>]

AxisFields ==
    << "id", "depends_on", "equipment", "type", "vector[1]", "vector[2]",
       "vector[3]", "offset[1]", "offset[2]", "offset[3]" >>

\* write_axis_info: goniometer rows, then detector rows, then pixel-axis rows
write_axis_info(g_axes, d_axes, s_axes) ==
    LET grow(v) == Row(<< v.id, v.next, "goniometer", "rotation",
                          v.axis[1], v.axis[2], v.axis[3], 0, 0, 0 >>)
        drow(v) == Row(<< v.id, v.next, "detector", v.type,
                          v.axis[1], v.axis[2], v.axis[3], 0, 0, 0 >>)
        srow(v) == Row(<< v.id, v.next, "detector", "translation",
                          v.axis[1], v.axis[2], v.axis[3],
                          v.origin[1], v.origin[2], v.origin[3] >>)
    IN cif_loop("_axis", AxisFields,
                [i \in 1..Len(g_axes) |-> grow(g_axes[i])]
                \o [i \in 1..Len(d_axes) |-> drow(d_axes[i])]
                \o [i \in 1..Len(s_axes) |-> srow(s_axes[i])])

\* write_array_info: detector, elements, detector axes, array structure
write_array_info(det_name, n_elms, s_axes, d_axes) ==
    [err |-> "",
     text |->
       << Block("_diffrn_detector", <<"id", "diffrn_id">>, << Row(<<det_name, "DIFFRN">>) >>),
          Block("_diffrn_detector_element", <<"id", "detector_id">>,
                [i \in 1..n_elms |-> Row(<<ElementId(i), det_name>>)]),
          Block("_diffrn_detector_axis", <<"detector_id", "axis_id">>,
                [i \in 1..Len(d_axes) |-> Row(<<"DETECTOR", d_axes[i].id>>)]),
          Block("_array_structure_list_axis",
                <<"axis_id", "axis_set_id", "displacement", "displacement_increment">>,
                [i \in 1..Len(s_axes) |->
                    Row(<<s_axes[i].id, i, s_axes[i].pix_size \div 2, s_axes[i].pix_size>>)]),
          Block("_array_structure_list",
                <<"array_id", "axis_set_id", "direction", "index", "precedence", "dimension">>,
                [i \in 1..Len(s_axes) |->
                    Row(<<1, i, "increasing", s_axes[i].prec, s_axes[i].prec,
                          s_axes[i].num_pix>>)]) >>]

ScanAxisFields ==
    << "scan_id", "axis_id", "displacement_start", "displacement_increment",
       "displacement_range", "angle_start", "angle_increment", "angle_range" >>

\* the scan axis of one experiment
ScanAx(expt) ==
    IF expt.goniometer.multi
    THEN expt.goniometer.names[expt.goniometer.scan_axis]
    ELSE GONIO_DEFAULT_AXIS

\* the rows write_scan_info appends for experiment s_ix (1-based)
ScanInfoRows(expts, g_axes, d_axes, s_ix) ==
    LET expt == expts[s_ix]
        scan_id == ScanId(s_ix)
        scan_ax == ScanAx(expt)
        start == expt.scan.oscillation[1]
        step == expt.scan.oscillation[2]
        full_range == step * expt.scan.num_images
        grow(v) == IF v.id = scan_ax
                   THEN Row(<< scan_id, v.id, Dot, Dot, Dot,
                               Fmt2(start), Fmt4(step), Fmt2(full_range) >>)
                   ELSE Row(<< scan_id, v.id, Dot, Dot, Dot,
                               Fmt2(v.vals[s_ix]), Float0, Float0 >>)
        drow(v) == IF v.id = Trans
                   THEN Row(<< scan_id, v.id, Fmt2(v.vals[s_ix]), Float0, Float0,
                               Dot, Dot, Dot >>)
                   ELSE Row(<< scan_id, v.id, Dot, Dot, Dot,
                               Fmt2(v.vals[s_ix]), Float0, Float0 >>)
    IN [i \in 1..Len(g_axes) |-> grow(g_axes[i])]
       \o [i \in 1..Len(d_axes) |-> drow(d_axes[i])]

RECURSIVE ScanInfoAll(_, _, _, _)
ScanInfoAll(expts, g_axes, d_axes, n) ==
    IF n = 0 THEN <<>>
    ELSE ScanInfoAll(expts, g_axes, d_axes, n - 1) \o ScanInfoRows(expts, g_axes, d_axes, n)

\* write_scan_info: KeyError when an axis that is not the scan axis of a
\* scan has no 'vals' (the single-axis entry of get_gon_axes has none)
write_scan_info(expts, g_axes, d_axes) ==
    IF \E s_ix \in 1..Len(expts), i \in 1..Len(g_axes) :
           g_axes[i].id # ScanAx(expts[s_ix]) /\ ~g_axes[i].hasvals
    THEN [err |-> "KeyError", text |-> <<>>]
    ELSE cif_loop("_diffrn_scan_axis", ScanAxisFields,
                  ScanInfoAll(expts, g_axes, d_axes, Len(expts)))

\* min(n, scan_frame_limit), where the default limit is np.inf
MinLimit(n, limit) == IF limit = NoLimit THEN n ELSE Min(n, limit)

\* n - scan_frame_limit (not positive for np.inf)
CutCount(n, limit) == IF limit = NoLimit THEN 0 ELSE n - limit

NumImages(expts) == [e \in 1..Len(expts) |-> expts[e].scan.num_images]

\* the value of a loop counter that starts at 1 and advances by cnt[j]
\* for every j before i
CounterAt(cnt, i) == 1 + SumSeq(SubSeq(cnt, 1, i - 1))

\* the rows of _diffrn_scan: the counter advances by the full frame count
ScanRows(expts) ==
    LET cnt == NumImages(expts)
    IN [s_ix \in 1..Len(expts) |->
           Row(<< ScanId(s_ix),
                  FrameId(CounterAt(cnt, s_ix)),
                  FrameId(CounterAt(cnt, s_ix) + cnt[s_ix] - 1),
                  cnt[s_ix] >>)]

\* a variant of ScanFrameRows whose frame ids restart with every scan
ScanFrameRowsPerScan(expt, s_ix, counter, limit) ==
    LET n == MinLimit(expt.scan.num_images, limit)
        n_cut == CutCount(expt.scan.num_images, limit)
    IN [f_ix \in 1..n |->
           Row(<< FrameId(f_ix), ScanId(s_ix), f_ix, expt.scan.exposure_times[f_ix] >>)]
       \o (IF n_cut > 0 THEN << CutRow(n_cut) >> ELSE <<>>)

\* the rows of one scan in _diffrn_scan_frame, counter being the loop
\* counter when the scan is entered
ScanFrameRows(expt, s_ix, counter, limit) ==
    LET n == MinLimit(expt.scan.num_images, limit)
        n_cut == CutCount(expt.scan.num_images, limit)
    IN [f_ix \in 1..n |->
           Row(<< FrameId(counter + f_ix - 1), ScanId(s_ix), f_ix,
                  expt.scan.exposure_times[f_ix] >>)]
       \o (IF n_cut > 0 THEN << CutRow(n_cut) >> ELSE <<>>)

RECURSIVE FrameRowsAll(_, _, _)
FrameRowsAll(expts, n, limit) ==
    IF n = 0 THEN <<>>
    ELSE LET written == [e \in 1..Len(expts) |-> MinLimit(expts[e].scan.num_images, limit)]
         IN FrameRowsAll(expts, n - 1, limit)
            \o ScanFrameRows(expts[n], n, CounterAt(written, n), limit)

\* write_frame_ids: _diffrn_scan, then _diffrn_scan_frame
write_frame_ids(expts, scan_frame_limit) ==
    LET a == cif_loop("_diffrn_scan",
                      <<"id", "frame_id_start", "frame_id_end", "frames">>,
                      ScanRows(expts))
        b == cif_loop("_diffrn_scan_frame",
                      <<"frame_id", "scan_id", "frame_number", "integration_time">>,
                      FrameRowsAll(expts, Len(expts), scan_frame_limit))
    IN IF a.err # "" THEN a
       ELSE [err |-> b.err, text |-> a.text \o b.text]

\* the rows of one scan in _diffrn_data_frame
DataFrameRows(expt, counter, limit) ==
    LET n == MinLimit(expt.scan.num_images, limit)
        n_cut == CutCount(expt.scan.num_images, limit)
    IN [f_ix \in 1..n |->
           Row(<< FrameId(counter + f_ix - 1), <<"ELEMENT">>, "IMAGE",
                  counter + f_ix - 1 >>)]
       \o (IF n_cut > 0 THEN << CutRow(n_cut) >> ELSE <<>>)

RECURSIVE DataRowsAll(_, _, _)
DataRowsAll(expts, n, limit) ==
    IF n = 0 THEN <<>>
    ELSE LET written == [e \in 1..Len(expts) |-> MinLimit(expts[e].scan.num_images, limit)]
         IN DataRowsAll(expts, n - 1, limit)
            \o DataFrameRows(expts[n], CounterAt(written, n), limit)

\* write_frame_images: _diffrn_data_frame, then _array_data
write_frame_images(expts, scan_frame_limit) ==
    LET written == [e \in 1..Len(expts) |-> MinLimit(expts[e].scan.num_images, scan_frame_limit)]
        counter == 1 + SumSeq(written)
        n_cut == SumSeq(NumImages(expts)) - (counter - 1)
        a == cif_loop("_diffrn_data_frame",
                      <<"id", "detector_element_id", "array_id", "binary_id">>,
                      DataRowsAll(expts, Len(expts), scan_frame_limit))
        b == cif_loop("_array_data",
                      <<"array_id", "binary_id", "external_data_id">>,
                      [i \in 1..(counter - 1) |-> Row(<<"IMAGE", i, i>>)]
                      \o (IF n_cut > 0 THEN << CutRow(n_cut) >> ELSE <<>>))
    IN IF a.err # "" THEN a
       ELSE [err |-> b.err, text |-> a.text \o b.text]

\* =================================================================
\* External locations (dials2imgcif.py)
\* =================================================================
\* A path is [parts, name]: the directories, and the file name as
\* [stem, hashes, num, suffix] where hashes is the length of the run of '#'
\* that ends the stem (0 for none), num the digits that replaced it and
\* suffix starts with the '.' separator.

FileName(stem, hashes, suffix) ==
    [stem |-> stem, hashes |-> hashes, num |-> <<>>, suffix |-> suffix]

NoPath == [parts |-> <<>>, name |-> FileName("", 0, "")]

IsPrefix(p, q) == Len(p) <= Len(q) /\ SubSeq(q, 1, Len(p)) = p

\* ArchiveUrl.cif_fields: template_path.relative_to(self.dir) raises
\* ValueError when the path is not under dir
ArchiveUrl_cif_fields(loc, template_path) ==
    IF ~IsPrefix(loc.dir, template_path.parts)
    THEN [err |-> "ValueError", kind |-> "archive", uri |-> loc.url,
          archive_format |-> loc.archive_type, template |-> template_path]
    ELSE [err |-> "", kind |-> "archive", uri |-> loc.url,
          archive_format |-> loc.archive_type,
          template |-> [template_path EXCEPT
                           !.parts = SubSeq(@, Len(loc.dir) + 1, Len(@))]]

\* DirectoryUrl.cif_fields: url_base.rstrip('/') + '/' + template_path.name
DirectoryUrl_cif_fields(loc, template_path) ==
    [err |-> "", kind |-> "directory",
     uri |-> [loc.url EXCEPT !.slashes = 0],
     archive_format |-> NoneStr,
     template |-> [template_path EXCEPT !.parts = <<>>]]

\* PlaceholderUrl.cif_fields: {'uri_template': '????'}, whatever the path
PlaceholderUrl_cif_fields(loc, template_path) ==
    [err |-> "", kind |-> "directory", uri |-> loc.url,
     archive_format |-> NoneStr, template |-> NoPath]

cif_fields(loc, template_path) ==
    IF loc.kind = "archive"
    THEN ArchiveUrl_cif_fields(loc, template_path)
    ELSE IF loc.kind = "placeholder"
    THEN PlaceholderUrl_cif_fields(loc, template_path)
    ELSE DirectoryUrl_cif_fields(loc, template_path)

\* guess_file_type
guess_file_type(name, dxtbx_fmt_cls) ==
    IF dxtbx_fmt_cls = "FormatSMV" THEN "SMV"
    ELSE IF name.suffix = ".cbf" THEN "CBF"
    ELSE IF name.suffix \in {".h5", ".nxs"} THEN "HDF5"
    ELSE IF name.suffix = ".tif" THEN "TIFF"
    ELSE "???"

\* lexicographic order of two digit strings
RECURSIVE DigitsLess(_, _)
DigitsLess(a, b) ==
    IF b = <<>> THEN FALSE
    ELSE IF a = <<>> THEN TRUE
    ELSE IF a[1] # b[1] THEN a[1] < b[1]
    ELSE DigitsLess(Tail(a), Tail(b))

RECURSIVE SortedInsert(_, _)
SortedInsert(s, d) ==
    IF s = <<>> THEN <<d>>
    ELSE IF DigitsLess(d.digits, s[1].digits) THEN <<d>> \o s
    ELSE <<s[1]>> \o SortedInsert(Tail(s), d)

RECURSIVE SortedData(_)
SortedData(ds) ==
    IF ds = <<>> THEN <<>>
    ELSE LET rest == SortedData(Tail(ds))
         IN IF ds[1].is_data /\ ds[1].digits # <<>>
            THEN SortedInsert(rest, ds[1])
            ELSE rest

\* find_hdf5_images that takes the members in the order the group gives them
find_hdf5_images_unsorted(master_path, data_grp) ==
    LET ds == SelectSeq(data_grp, LAMBDA d : d.is_data /\ d.digits # <<>>)
    IN [i \in 1..Len(ds) |->
           [file_path |-> IF ds[i].external
                          THEN [master_path EXCEPT !.name = ds[i].filename]
                          ELSE master_path,
            obj_path |-> ds[i].path,
            n |-> ds[i].n]]

\* find_hdf5_images: (file_path, obj_path, n) of every member of /entry/data
\* named data_<digits>, in the order of the sorted names
find_hdf5_images(master_path, data_grp) ==
    LET ds == SortedData(data_grp)
    IN [i \in 1..Len(ds) |->
           [file_path |-> IF ds[i].external
                          THEN [master_path EXCEPT !.name = ds[i].filename]
                          ELSE master_path,
            obj_path |-> ds[i].path,
            n |-> ds[i].n]]

\* ExtEntries without the assertion on the sum of the frame counts
ExtEntriesUnchecked(expt, download_loc, file_type) ==
    LET template_path == expt.imageset.template
        fmt == IF file_type # NoneStr THEN file_type
               ELSE guess_file_type(template_path.name, expt.imageset.format_class)
        n_frames == expt.scan.num_images
        imgs == find_hdf5_images(template_path, expt.imageset.data_grp)
        h5 == [i \in 1..Len(imgs) |->
                  [format |-> fmt, num_frames |-> imgs[i].n, path |-> imgs[i].obj_path,
                   single_file |-> TRUE,
                   fields |-> cif_fields(download_loc, imgs[i].file_path)]]
        one == << [format |-> fmt, num_frames |-> n_frames, path |-> NoneStr,
                   single_file |-> expt.imageset.single_file,
                   fields |-> cif_fields(download_loc, template_path)] >>
        ents == IF fmt = "HDF5" THEN h5 ELSE one
    IN IF \E i \in 1..Len(ents) : ents[i].fields.err # ""
       THEN [err |-> "ValueError", entries |-> <<>>]
       ELSE [err |-> "", entries |-> ents]

\* the entries gen_external_locations appends for one experiment
ExtEntries(expt, download_loc, file_type) ==
    LET template_path == expt.imageset.template
        fmt == IF file_type # NoneStr THEN file_type
               ELSE guess_file_type(template_path.name, expt.imageset.format_class)
        n_frames == expt.scan.num_images
        imgs == find_hdf5_images(template_path, expt.imageset.data_grp)
        h5 == [i \in 1..Len(imgs) |->
                  [format |-> fmt, num_frames |-> imgs[i].n, path |-> imgs[i].obj_path,
                   single_file |-> TRUE,
                   fields |-> cif_fields(download_loc, imgs[i].file_path)]]
        one == << [format |-> fmt, num_frames |-> n_frames, path |-> NoneStr,
                   single_file |-> expt.imageset.single_file,
                   fields |-> cif_fields(download_loc, template_path)] >>
        ents == IF fmt = "HDF5" THEN h5 ELSE one
    IN IF \E i \in 1..Len(ents) : ents[i].fields.err # ""
       THEN [err |-> "ValueError", entries |-> <<>>]
       ELSE IF fmt = "HDF5" /\ SumSeq([i \in 1..Len(imgs) |-> imgs[i].n]) # n_frames
       THEN [err |-> "AssertionError", entries |-> <<>>]
       ELSE [err |-> "", entries |-> ents]

RECURSIVE ExtInfoAll(_, _, _, _)
ExtInfoAll(expts, locs, file_type, n) ==
    IF n = 0 THEN [err |-> "", entries |-> <<>>]
    ELSE LET before == ExtInfoAll(expts, locs, file_type, n - 1)
             this == ExtEntries(expts[n], locs[n], file_type)
         IN IF before.err # "" THEN before
            ELSE IF this.err # "" THEN this
            ELSE [err |-> "", entries |-> before.entries \o this.entries]

\* locations *= n_scans
Repeat(locs, n) == [i \in 1..(Len(locs) * n) |-> locs[((i - 1) % Len(locs)) + 1]]

\* a variant of LocationsAfter without "locations *= n_scans"
LocationsAsGiven(expts, locs) == locs

\* the caller's list after gen_external_locations: extended in place when
\* it has one element
LocationsAfter(expts, locs) ==
    IF Len(locs) = 1 THEN Repeat(locs, Len(expts)) ELSE locs

\* gen_external_locations: the per-scan (per-file for HDF5) entries
gen_external_locations(expts, locs, file_type) ==
    LET n_scans == Len(expts)
        used == LocationsAfter(expts, locs)
    IN IF Len(locs) # 1 /\ Len(locs) # n_scans
       THEN [err |-> "ValueError", ext_info |-> <<>>]
       ELSE LET r == ExtInfoAll(expts, used, file_type, Min(n_scans, Len(used)))
            IN [err |-> r.err, ext_info |-> r.entries]

\* f"{val:0{width}}": the digits of val, zero-padded on the left to width
RECURSIVE ZeroPad(_, _)
ZeroPad(d, width) == IF Len(d) >= width THEN d ELSE ZeroPad(<<0>> \o d, width)

\* encode_scan_step: re.sub(r"(#+)\.", ...) on the file name of a template
encode_scan_step(template, val) ==
    IF template.name.hashes > 0
    THEN [template EXCEPT !.name.num = ZeroPad(Digits(val), template.name.hashes),
                          !.name.hashes = 0]
    ELSE template

\* the fields of _array_data_external_data, chosen from the first entry
ExtFields(ext_info) ==
    <<"id", "format", "uri">>
    \o (IF ext_info[1].fields.kind = "archive"
        THEN <<"archive_format", "archive_path">> ELSE <<>>)
    \o (IF ext_info[1].format = "HDF5" THEN <<"path">> ELSE <<>>)
    \o (IF ext_info[1].single_file THEN <<"frame">> ELSE <<>>)

\* one row of _array_data_external_data
ExtRow(extf, counter, fr_ix) ==
    Row( << counter, extf.format >>
         \o (IF extf.fields.kind = "directory"
             THEN << [uri |-> extf.fields.uri,
                      rel |-> encode_scan_step(extf.fields.template, fr_ix)] >>
             ELSE << [uri |-> extf.fields.uri, rel |-> NoPath] >>)
         \o (IF extf.fields.kind = "archive"
             THEN << extf.fields.archive_format,
                     encode_scan_step(extf.fields.template, fr_ix) >>
             ELSE <<>>)
         \o (IF extf.format = "HDF5" THEN << extf.path >> ELSE <<>>)
         \o (IF extf.single_file THEN << fr_ix >> ELSE <<>>) )

\* the rows of one entry, counter being the loop counter when it is entered
ExtEntryRows(extf, counter, limit) ==
    LET n == MinLimit(extf.num_frames, limit)
        n_cut == CutCount(extf.num_frames, limit)
    IN [fr_ix \in 1..n |-> ExtRow(extf, counter + fr_ix - 1, fr_ix)]
       \o (IF n_cut > 0 THEN << CutRow(n_cut) >> ELSE <<>>)

RECURSIVE ExtRowsAll(_, _, _)
ExtRowsAll(ext_info, n, limit) ==
    IF n = 0 THEN <<>>
    ELSE LET written == [e \in 1..Len(ext_info) |-> MinLimit(ext_info[e].num_frames, limit)]
         IN ExtRowsAll(ext_info, n - 1, limit)
            \o ExtEntryRows(ext_info[n], CounterAt(written, n), limit)

\* write_external_locations: IndexError on an empty ext_info
write_external_locations(ext_info, scan_frame_limit) ==
    IF ext_info = <<>> THEN [err |-> "IndexError", text |-> <<>>]
    ELSE cif_loop("_array_data_external_data", ExtFields(ext_info),
                  ExtRowsAll(ext_info, Len(ext_info), scan_frame_limit))

\* =================================================================
\* Inputs
\* =================================================================
YHat == Vec(0, Scale, 0)
ZHat == Vec(0, 0, Scale)

SingleAxis(axis) ==
    [multi |-> FALSE, names |-> <<>>, axes |-> <<axis>>, angles |-> <<>>, scan_axis |-> 0]

MultiAxis(names, axes, angles, scan_axis) ==
    [multi |-> TRUE, names |-> names, axes |-> axes, angles |-> angles,
     scan_axis |-> scan_axis]

PhiOmega == << <<"GON_PHI">>, <<"GON_OMEGA">> >>
KappaOmega == << <<"GON_KAPPA">>, <<"GON_OMEGA">> >>

\* the goniometers of a first scan
Goniometers ==
    { SingleAxis(XHat),
      SingleAxis(YHat),
      MultiAxis(PhiOmega, <<XHat, XHat>>, <<0, 900000>>, 2),
      MultiAxis(PhiOmega, <<ZHat, YHat>>, <<150000, 0>>, 1),
      MultiAxis(PhiOmega, <<XHat, ZHat>>, <<0, 0>>, 2),
      SingleAxis(Vec(Scale, 3, 0)) }

\* the goniometers a later scan can have, given the first one
LaterGoniometers(gon0) ==
    IF gon0.multi
    THEN { gon0,
           [gon0 EXCEPT !.angles = <<300000, 450000>>, !.scan_axis = 3 - @],
           [gon0 EXCEPT !.names = KappaOmega],
           SingleAxis(gon0.axes[2]) }
    ELSE { gon0,
           SingleAxis(YHat),
           MultiAxis(PhiOmega, <<XHat, gon0.axes[1]>>, <<0, 900000>>, 1) }

PanelOf(name, fast, slow, origin) ==
    [name |-> name, fast |-> fast, slow |-> slow, origin |-> origin,
     pixel_size |-> <<1720, 1720>>, image_size |-> <<4, 6>>]

StdPanel == PanelOf("p1", XHat, VNeg(YHat), Vec(-1000, 1000, -2000))

\* the panel tilted about x by dev units of 1/Scale radians
TiltedPanel(dev) ==
    PanelOf("p1", XHat, Vec(0, -Scale, -dev), Vec(-1000, 1000, -2000))

\* the detectors of a first scan
Detectors ==
    { << StdPanel >>,
      << TiltedPanel(1) >>,
      << TiltedPanel(2) >>,
      << TiltedPanel(30) >>,
      << PanelOf("p1", XHat, VNeg(ZHat), Vec(-1000, -2000, -1000)) >>,
      << PanelOf("p1", XHat, YHat, Vec(-1000, -1000, 2000)) >>,
      << PanelOf("p1", YHat, ZHat, Vec(2000, -1000, -1000)) >>,
      << StdPanel, PanelOf("p2", XHat, VNeg(YHat), Vec(0, 1000, -2000)) >>,
      << PanelOf("p1", YHat, ZHat, Vec(2000, -1000, -1000)), [StdPanel EXCEPT !.name = "p2"] >> }

\* the detectors of a later scan
LaterDetectors(det0) ==
    { det0,
      << TiltedPanel(1) >>,
      << TiltedPanel(30) >>,
      << PanelOf("p1", XHat, VNeg(ZHat), Vec(-1000, -2000, -1000)) >> }

ScanOf(num_images, start, step) ==
    [num_images |-> num_images, oscillation |-> <<start, step>>,
     exposure_times |-> [i \in 1..num_images |-> 100]]

CbfTemplate == [parts |-> <<"data", "run1">>, name |-> FileName("s01f", 4, ".cbf")]

CbfImageset ==
    [template |-> CbfTemplate, format_class |-> "FormatCBFMini",
     single_file |-> FALSE, data_grp |-> <<>>]

Url(text, slashes) == [text |-> text, slashes |-> slashes]

ArchiveUrl(url, dir, archive_type) ==
    [kind |-> "archive", url |-> url, dir |-> dir, archive_type |-> archive_type]

DirectoryUrl(url_base) ==
    [kind |-> "directory", url |-> url_base, dir |-> <<>>, archive_type |-> NoneStr]

PlaceholderUrl ==
    [kind |-> "placeholder", url |-> Url(<<"????">>, 0), dir |-> <<>>,
     archive_type |-> NoneStr]

Experiment(gon, det, scan, imageset) ==
    [goniometer |-> gon, detector |-> det, scan |-> scan, imageset |-> imageset,
     wavelength |-> 97949]

\* an HDF5 master file whose /entry/data holds the given members
Dataset(digits, n) ==
    [is_data |-> TRUE, digits |-> digits, external |-> TRUE,
     filename |-> [stem |-> "x_", hashes |-> 0, num |-> digits, suffix |-> ".h5"],
     path |-> "/entry/data/data", n |-> n]

OtherMember ==
    [is_data |-> FALSE, digits |-> <<>>, external |-> FALSE,
     filename |-> FileName("x_master", 0, ".h5"), path |-> "/entry/data/meta", n |-> 1]

H5Imageset(data_grp) ==
    [template |-> [parts |-> <<"data", "run1">>, name |-> FileName("x_master", 0, ".h5")],
     format_class |-> "FormatNexus", single_file |-> TRUE, data_grp |-> data_grp]

\* the image sets of a scan of n frames, by the kind of batch
Imageset(mode, n) ==
    CASE mode = "h5-one" -> H5Imageset(<< Dataset(<<0, 0, 1>>, n) >>)
      [] mode = "h5-split" ->
            H5Imageset(IF n = 1 THEN << OtherMember, Dataset(<<0, 0, 1>>, 1) >>
                       ELSE << Dataset(<<0, 0, 2>>, 1), OtherMember,
                               Dataset(<<0, 0, 1>>, n - 1) >>)
      [] mode = "h5-short" ->
            H5Imageset(<< Dataset(<<0, 0, 1>>, n), Dataset(<<0, 0, 2>>, 1) >>)
      [] OTHER -> CbfImageset

Modes == {"cbf-dir", "cbf-archive", "h5-one", "h5-split", "h5-short"}

Location(mode, i) ==
    IF mode = "cbf-dir"
    THEN DirectoryUrl(Url(<<"rsync://host/base", i>>, 1))
    ELSE ArchiveUrl(Url(<<"https://host/archive.tar.bz2", i>>, 0), <<"data">>, "TBZ")

\* --frames-limit: none, or N
LimitChoices == {NoLimit, 0, 1, 2}

\* =================================================================
\* The programs
\* =================================================================
VARIABLES
    prog,           \* which program the behaviour runs
    expts,          \* the experiment list
    locations,      \* the caller's list of download locations
    file_type,      \* make_cif's file_type argument
    frame_limit,    \* make_cif's frame_limit argument
    pc,             \* the call make_cif (or the extractor) is about to make
    outf,           \* the blocks written to the output stream
    axes,           \* (g_ax, d_ax, s_ax) of get_axes_info
    ext_info,       \* the result of gen_external_locations
    err,            \* the exception raised, and the call that raised it
    panel_2theta,   \* the extractor's panel_2theta_axs / panel_2theta_ang
    det_rot,        \* the extractor's det_rot_axes_found
    n_scan_info,    \* the extractor's len(self.scan_info)
    args,           \* main's parsed command line
    call,           \* a function called on its own: its name and arguments
    ret,            \* what that call returned or raised
    sock,           \* the socket pair of the GUI: the bytes or messages in flight
    handled,        \* the commands the backend loop has taken off the socket, or
                    \* the answers the interactive flow has read
    doi,            \* Backend.explicit_doi, or the interactive flow's doi
    reader,         \* a line reader: its read_buffer and the lines it delivered
    validator,      \* AsyncValidator: line edit, timer, threads, style, signals
    fs,             \* the disk: what each path is and what it holds
    stdin           \* the number of lines the user types before the input ends

\* the variables of the GUI and of the interactive flow
ui_vars == << sock, handled, doi, reader, validator, fs, stdin >>

vars == << prog, expts, locations, file_type, frame_limit, pc, outf, axes,
           ext_info, err, panel_2theta, det_rot, n_scan_info, args, call, ret,
           ui_vars >>

NoAxes == [g |-> <<>>, d |-> <<>>, s |-> <<>>]
NoErr == [type |-> "", at |-> ""]
NoArgs == [given |-> FALSE]
NoCall == [fn |-> ""]
NoRet == [err |-> ""]

\* a DOI is the tuple of its pieces; the empty tuple stands for None and
\* for '', which the code tells apart nowhere (it tests "if doi", "bool(doi)"
\* and "doi or ...")
NoDoi == <<>>

NoSock == [to_backend |-> <<>>, to_frontend |-> <<>>]
NoReader == [read_buffer |-> <<>>, lines |-> <<>>, eof |-> 0]
NoValidator ==
    [text |-> "", timer |-> FALSE, style |-> "", started |-> 0, threads |-> <<>>,
     results |-> <<>>, changed_valid |-> <<>>]
\* a path that does not exist, and a disk without the paths of interest
Absent == [kind |-> "absent", content |-> <<>>]
NoFs == [name \in {} |-> Absent]

\* neither the GUI nor the interactive flow runs
InitUi ==
    /\ sock = NoSock
    /\ handled = <<>>
    /\ doi = NoDoi
    /\ reader = NoReader
    /\ validator = NoValidator
    /\ fs = NoFs
    /\ stdin = 0

InitRest ==
    /\ file_type = NoneStr
    /\ pc = "start"
    /\ outf = <<>>
    /\ axes = NoAxes
    /\ ext_info = <<>>
    /\ err = NoErr
    /\ panel_2theta = <<>>
    /\ det_rot = <<>>
    /\ args = NoArgs
    /\ call = NoCall
    /\ ret = NoRet
    /\ InitUi

\* batches that vary the frame counts, the truncation limit, the image
\* format and the number of locations, on one fixed instrument
Init ==
    /\ prog = "dials2imgcif"
    /\ \E n \in 1..MaxScans : \E fr \in [1..n -> 1..MaxFrames] : \E mode \in Modes :
          /\ expts = [i \in 1..n |->
                         Experiment(SingleAxis(YHat), << StdPanel >>,
                                    ScanOf(fr[i], -450000, 10000), Imageset(mode, fr[i]))]
          /\ \E nloc \in {1, n, n + 1} \cup {k \in {n - 1} : k >= 1} :
                locations = [i \in 1..nloc |-> Location(mode, i)]
    /\ frame_limit \in LimitChoices
    /\ n_scan_info = Len(expts)
    /\ InitRest

ScanChoices == { ScanOf(2, -450000, 10000), ScanOf(3, 1234, 2500) }

RECURSIVE GeomBatches(_)
\* the batches of n scans that vary the instrument
GeomBatches(n) ==
    IF n = 1
    THEN { << Experiment(g, d, sc, CbfImageset) >> :
              g \in Goniometers, d \in Detectors, sc \in ScanChoices }
    ELSE UNION { { Append(b, Experiment(g, d, b[1].scan, CbfImageset)) :
                      g \in LaterGoniometers(b[1].goniometer),
                      d \in LaterDetectors(b[1].detector) } :
                 b \in GeomBatches(n - 1) }

InitGeom ==
    /\ prog \in {"dials2imgcif", "creator"}
    /\ \E n \in 1..MaxGeomScans : expts \in GeomBatches(n)
    /\ locations = << Location("cbf-dir", 1) >>
    /\ frame_limit = NoLimit
    /\ n_scan_info \in (IF prog = "creator" THEN 1..Len(expts) ELSE {Len(expts)})
    /\ InitRest

\* -----------------------------------------------------------------
\* make_cif, one action per call
\* -----------------------------------------------------------------
\* a call that writes r.text, or raises r.err
Call(from, to, r) ==
    /\ prog = "dials2imgcif"
    /\ pc = from
    /\ IF r.err = ""
       THEN /\ outf' = outf \o r.text
            /\ pc' = to
            /\ err' = err
       ELSE /\ outf' = outf
            /\ pc' = "raised"
            /\ err' = [type |-> r.err, at |-> from]

\* outf.write(CIF_HEADER.format(name=data_name)); write_doi(doi, outf)
WriteHeader ==
    /\ Call("start", "write_beam_info", [err |-> "", text |-> write_header("result")])
    /\ UNCHANGED << prog, expts, locations, file_type, frame_limit, axes, ext_info,
                    panel_2theta, det_rot, n_scan_info, args, call, ret, ui_vars >>

WriteBeamInfo ==
    /\ Call("write_beam_info", "get_axes_info", write_beam_info(expts))
    /\ UNCHANGED << prog, expts, locations, file_type, frame_limit, axes, ext_info,
                    panel_2theta, det_rot, n_scan_info, args, call, ret, ui_vars >>

AxesStep(r) ==
    /\ Call("get_axes_info", "write_axis_info", [err |-> r.err, text |-> <<>>])
    /\ axes' = IF r.err = "" THEN [g |-> r.g, d |-> r.d, s |-> r.s] ELSE axes

\* g_ax, d_ax, s_ax = get_axes_info(expts)
GetAxesInfo ==
    /\ AxesStep(get_axes_info(expts))
    /\ UNCHANGED << prog, expts, locations, file_type, frame_limit, ext_info,
                    panel_2theta, det_rot, n_scan_info, args, call, ret, ui_vars >>

WriteAxisInfo ==
    /\ Call("write_axis_info", "write_array_info", write_axis_info(axes.g, axes.d, axes.s))
    /\ UNCHANGED << prog, expts, locations, file_type, frame_limit, axes, ext_info,
                    panel_2theta, det_rot, n_scan_info, args, call, ret, ui_vars >>

WriteArrayInfo ==
    /\ Call("write_array_info", "write_scan_info",
            write_array_info("DETECTOR", Len(expts[1].detector), axes.s, axes.d))
    /\ UNCHANGED << prog, expts, locations, file_type, frame_limit, axes, ext_info,
                    panel_2theta, det_rot, n_scan_info, args, call, ret, ui_vars >>

WriteScanInfo ==
    /\ Call("write_scan_info", "write_frame_ids", write_scan_info(expts, axes.g, axes.d))
    /\ UNCHANGED << prog, expts, locations, file_type, frame_limit, axes, ext_info,
                    panel_2theta, det_rot, n_scan_info, args, call, ret, ui_vars >>

WriteFrameIds ==
    /\ Call("write_frame_ids", "write_frame_images", write_frame_ids(expts, frame_limit))
    /\ UNCHANGED << prog, expts, locations, file_type, frame_limit, axes, ext_info,
                    panel_2theta, det_rot, n_scan_info, args, call, ret, ui_vars >>

WriteFrameImages ==
    /\ Call("write_frame_images", "gen_external_locations",
            write_frame_images(expts, frame_limit))
    /\ UNCHANGED << prog, expts, locations, file_type, frame_limit, axes, ext_info,
                    panel_2theta, det_rot, n_scan_info, args, call, ret, ui_vars >>

ExtStep(r) ==
    /\ Call("gen_external_locations", "write_external_locations",
            [err |-> r.err, text |-> <<>>])
    /\ ext_info' = r.ext_info

\* ext_info = gen_external_locations(expts, locations, file_type); the
\* function extends the caller's list before it checks or returns anything
GenExternalLocations ==
    /\ ExtStep(gen_external_locations(expts, locations, file_type))
    /\ locations' = LocationsAfter(expts, locations)
    /\ UNCHANGED << prog, expts, file_type, frame_limit, axes, panel_2theta, det_rot,
                    n_scan_info, args, call, ret, ui_vars >>

WriteExternalLocations ==
    /\ Call("write_external_locations", "done",
            write_external_locations(ext_info, frame_limit))
    /\ UNCHANGED << prog, expts, locations, file_type, frame_limit, axes, ext_info,
                    panel_2theta, det_rot, n_scan_info, args, call, ret, ui_vars >>

MakeCif ==
    \/ WriteHeader
    \/ WriteBeamInfo
    \/ GetAxesInfo
    \/ WriteAxisInfo
    \/ WriteArrayInfo
    \/ WriteScanInfo
    \/ WriteFrameIds
    \/ WriteFrameImages
    \/ GenExternalLocations
    \/ WriteExternalLocations

\* -----------------------------------------------------------------
\* imgCIF_Creator: Extractor._stack_detrot_axes_from_scans (dials_expt.py)
\* -----------------------------------------------------------------
\* rot_vec / rot_ang when rot_ang is zero
NaNVec == <<"nan">>

\* Extractor._get_two_theta, after the panel normal is there
ExtractorTwoThetaOfNormal(p_norm) ==
    LET delta == VSub(p_norm, BeamOpp)
        rot_obj == AlignVectors(BeamOpp, AwayFromSample(p_norm))
    IN IF VDot(delta, delta) < Tol3 * Tol3
       THEN [axs |-> Vec(0, 0, 0), ang |-> 0]
       ELSE [axs |-> IF rot_obj.angle = 0 THEN NaNVec ELSE rot_obj.axis,
             ang |-> RotAngleDeg(rot_obj)]

\* Extractor._get_two_theta: (rot_axs, rot_ang) of a pair (fsax, slax) as
\* the input file gives it
Extractor_get_two_theta(panel) ==
    ExtractorTwoThetaOfNormal(VUnit(VCross(panel[1], panel[2])))

\* Extractor._get_detector_panels: (fast_axis, slow_axis) of the first panel
\* of every detector entry
Extractor_get_detector_panels(raw) ==
    [i \in 1..Len(raw) |-> << raw[i].detector[1].fast, raw[i].detector[1].slow >>]

\* one turn of the loop "for p in panel_axes"
StackDetrotPanel ==
    /\ prog = "creator"
    /\ pc = "start"
    /\ Len(panel_2theta) < Len(expts)
    /\ panel_2theta' =
          Append(panel_2theta,
                 Extractor_get_two_theta(
                     Extractor_get_detector_panels(expts)[Len(panel_2theta) + 1]))
    /\ UNCHANGED << prog, expts, locations, file_type, frame_limit, pc, outf, axes,
                    ext_info, err, det_rot, n_scan_info, args, call, ret, ui_vars >>

\* after the loop: panel_2theta_ang[1] is the second entry, and
\* scan_2theta_ang has one element for the _n = len(self.scan_info) scans
StackDetrotReturn ==
    /\ prog = "creator"
    /\ pc = "start"
    /\ Len(panel_2theta) = Len(expts)
    /\ IF Len(panel_2theta) < 2 \/ n_scan_info > 1
       THEN /\ pc' = "raised"
            /\ err' = [type |-> "IndexError", at |-> "_stack_detrot_axes_from_scans"]
            /\ det_rot' = det_rot
       ELSE /\ pc' = "done"
            /\ err' = err
            /\ det_rot' = << [i \in 1..n_scan_info |-> "detector_2theta"],
                             [i \in 1..n_scan_info |-> panel_2theta[2].ang] >>
    /\ UNCHANGED << prog, expts, locations, file_type, frame_limit, outf, axes,
                    ext_info, panel_2theta, n_scan_info, args, call, ret, ui_vars >>

Creator ==
    \/ StackDetrotPanel
    \/ StackDetrotReturn

\* -----------------------------------------------------------------
\* dials2imgcif: guess_archive_type and main
\* -----------------------------------------------------------------
\* url.endswith(suffix), the text of a URL being its pieces cut before
\* every '.' of its last path segment
EndsWith(url, suffix) ==
    /\ Len(url.text) >= Len(suffix)
    /\ SubSeq(url.text, Len(url.text) - Len(suffix) + 1, Len(url.text)) = suffix

\* guess_archive_type without the two-piece suffixes
guess_archive_type_short(url) ==
    IF EndsWith(url, <<".tgz">>) THEN "TGZ"
    ELSE IF EndsWith(url, <<".tbz">>) THEN "TBZ"
    ELSE IF EndsWith(url, <<".txz">>) THEN "TXZ"
    ELSE IF EndsWith(url, <<".zip">>) THEN "ZIP"
    ELSE "???"

guess_archive_type(url) ==
    IF EndsWith(url, <<".tgz">>) \/ EndsWith(url, <<".tar", ".gz">>) THEN "TGZ"
    ELSE IF EndsWith(url, <<".tbz">>) \/ EndsWith(url, <<".tar", ".bz2">>) THEN "TBZ"
    ELSE IF EndsWith(url, <<".txz">>) \/ EndsWith(url, <<".tar", ".xz">>) THEN "TXZ"
    ELSE IF EndsWith(url, <<".zip">>) THEN "ZIP"
    ELSE "???"

\* a or b, for an option that is None unless given
OrElse(a, b) == IF a = NoneStr \/ a = "" THEN b ELSE a

\* the locations main builds; ValueError for both or none of --url, --url-base
MainLocations(a) ==
    IF a.url # <<>>
    THEN IF a.url_base # <<>>
         THEN [err |-> "ValueError", locations |-> <<>>]
         ELSE [err |-> "",
               locations |->
                  [i \in 1..Len(a.url) |->
                      ArchiveUrl(a.url[i], a.dir,
                                 OrElse(a.archive_type, guess_archive_type(a.url[i])))]]
    ELSE IF a.url_base # <<>>
         THEN [err |-> "",
               locations |-> [i \in 1..Len(a.url_base) |-> DirectoryUrl(a.url_base[i])]]
         ELSE [err |-> "ValueError", locations |-> <<>>]

\* main up to its call of make_cif, which gets locations, overload_value
\* and frame_limit and no file_type
MainStep(r) ==
    /\ prog = "dials2imgcif"
    /\ pc = "main"
    /\ frame_limit' = args.frames_limit
    /\ file_type' = NoneStr
    /\ locations' = r.locations
    /\ IF r.err = ""
       THEN pc' = "start" /\ err' = err
       ELSE pc' = "raised" /\ err' = [type |-> r.err, at |-> "main"]
    /\ UNCHANGED << prog, expts, outf, axes, ext_info, panel_2theta, det_rot,
                    n_scan_info, args, call, ret, ui_vars >>

Main == MainStep(MainLocations(args))

\* the command lines
ArchiveSuffixes ==
    { <<".tgz">>, <<".tar", ".gz">>, <<".tbz">>, <<".tar", ".bz2">>, <<".txz">>,
      <<".tar", ".xz">>, <<".zip">>, <<".gz">>, <<".ZIP">>, <<".7z">>,
      <<".tar", ".gz?download=1">>, <<>> }

ArchiveUrls == { Url(<<"https://host/files/cbf_b4_1">> \o sfx, 0) : sfx \in ArchiveSuffixes }

BaseUrls == { Url(<<"rsync://host/base">>, 0), Url(<<"https://host/download/285">>, 1) }

UrlLists(n) ==
    { <<u>> : u \in ArchiveUrls }
    \cup { [i \in 1..n |-> u] : u \in {Url(<<"https://host/files/s", ".zip">>, 0)} }

Args(url, url_base, dir, format, archive_type, frames_limit) ==
    [given |-> TRUE, url |-> url, url_base |-> url_base, dir |-> dir,
     format |-> format, archive_type |-> archive_type, frames_limit |-> frames_limit]

CommandLines(n) ==
    { Args(url, <<>>, dir, format, archive_type, frames_limit) :
         url \in UrlLists(n), dir \in {<<"data">>, <<"data", "run1">>},
         format \in {NoneStr, "SMV"}, archive_type \in {NoneStr, "ZIP"},
         frames_limit \in {NoLimit, 1} }
    \cup
    { Args(<<>>, <<u>>, dir, format, NoneStr, frames_limit) :
         u \in BaseUrls, dir \in {<<"data">>, <<"data", "run1">>},
         format \in {NoneStr, "SMV", "TIFF"}, frames_limit \in {NoLimit, 1} }
    \cup
    { Args(url, url_base, <<"data">>, NoneStr, NoneStr, NoLimit) :
         url \in { <<>>, << Url(<<"https://host/files/s", ".zip">>, 0) >> },
         url_base \in { <<>>, << Url(<<"rsync://host/base">>, 0) >> } }

\* main on batches of one or two scans of image files
InitMain ==
    /\ prog = "dials2imgcif"
    /\ \E n \in 1..2 : \E fr \in 1..2 :
          /\ expts = [i \in 1..n |->
                         Experiment(SingleAxis(YHat), << StdPanel >>,
                                    ScanOf(fr, 0, 10000), CbfImageset)]
          /\ args \in CommandLines(n)
    /\ locations = <<>>
    /\ frame_limit = NoLimit
    /\ n_scan_info = Len(expts)
    /\ file_type = NoneStr
    /\ pc = "main"
    /\ outf = <<>>
    /\ axes = NoAxes
    /\ ext_info = <<>>
    /\ err = NoErr
    /\ panel_2theta = <<>>
    /\ det_rot = <<>>
    /\ call = NoCall
    /\ ret = NoRet
    /\ InitUi

Next == MakeCif

Spec == Init /\ [][Next]_vars

NextMain == Main \/ MakeCif

SpecMain == InitMain /\ [][NextMain]_vars


\* both programs, on batches that vary the instrument
NextGeom == MakeCif \/ Creator

SpecGeom == InitGeom /\ [][NextGeom]_vars

\* =================================================================
\* Properties
\* =================================================================
\* reading the output stream
HasBlock(name) == \E i \in 1..Len(outf) : outf[i].name = name

RowsOf(name) == outf[CHOOSE i \in 1..Len(outf) : outf[i].name = name].rows

\* f_i, the frame count of scan i
FrameCount(i) == expts[i].scan.num_images

\* f_1 + ... + f_(i-1)
RECURSIVE FramesBefore(_)
FramesBefore(i) == IF i <= 1 THEN 0 ELSE FramesBefore(i - 1) + FrameCount(i - 1)

\* min(f_1, L) + ... + min(f_(i-1), L)
RECURSIVE KeptBefore(_)
KeptBefore(i) ==
    IF i <= 1 THEN 0 ELSE KeptBefore(i - 1) + Min(FrameCount(i - 1), frame_limit)

\* the number k of the frame id frm<k>
FrameNo(id) == CHOOSE k \in 0..(MaxScans * MaxFrames + 1) : FrameId(k) = id

\* what a table shows of its rows: 0 for a data row, the stated number of
\* cut rows for a marker row
Shape(rows) == [k \in 1..Len(rows) |-> IF rows[k].hash THEN rows[k].cells[1][2] ELSE 0]

\* min(f_i, L) data rows, then one marker stating f_i - L when f_i > L
RECURSIVE ShapeUpTo(_)
ShapeUpTo(n) ==
    IF n = 0 THEN <<>>
    ELSE ShapeUpTo(n - 1)
         \o [k \in 1..Min(FrameCount(n), frame_limit) |-> 0]
         \o (IF FrameCount(n) > frame_limit
             THEN << FrameCount(n) - frame_limit >> ELSE <<>>)

\* C1: without a truncation limit, the scan table gives scan i the range
\* frm(1 + f_1 + ... + f_(i-1)) .. frm(f_1 + ... + f_i) with frames = f_i,
\* and the scan-frame table lists frm1 .. frmN once each in increasing
\* order, the frame number restarting at 1 in every scan.
C1_FrameIdRanges ==
    (frame_limit = NoLimit /\ HasBlock("_diffrn_scan_frame")) =>
        LET sc == RowsOf("_diffrn_scan")
            fr == RowsOf("_diffrn_scan_frame")
        IN /\ Len(sc) = Len(expts)
           /\ \A i \in 1..Len(expts) :
                 sc[i].cells = << ScanId(i), FrameId(FramesBefore(i) + 1),
                                  FrameId(FramesBefore(i + 1)), FrameCount(i) >>
           /\ Len(fr) = FramesBefore(Len(expts) + 1)
           /\ \A k \in 1..Len(fr) : ~fr[k].hash /\ fr[k].cells[1] = FrameId(k)
           /\ \A i \in 1..Len(expts) : \A m \in 1..FrameCount(i) :
                 /\ fr[FramesBefore(i) + m].cells[2] = ScanId(i)
                 /\ fr[FramesBefore(i) + m].cells[3] = m

\* three scans of different lengths, written without a limit
C1_Witness ==
    /\ frame_limit = NoLimit
    /\ HasBlock("_diffrn_scan_frame")
    /\ Len(expts) = 3
    /\ FrameCount(1) = 2 /\ FrameCount(2) = 3 /\ FrameCount(3) = 1
    /\ Len(RowsOf("_diffrn_scan_frame")) = 6

\* C2: with one descriptor every scan gets it, with one per scan the
\* i-th scan gets the i-th, and any other number raises ValueError and
\* returns nothing.
C2_LocationPairing ==
    [][ (pc = "gen_external_locations" /\ pc' # pc) =>
          LET n == Len(expts)
              k == Len(locations)
              loc(i) == IF k = 1 THEN locations[1] ELSE locations[i]
              paired(i) == ExtEntries(expts[i], loc(i), file_type)
              lens == [i \in 1..n |-> Len(paired(i).entries)]
          IN IF k = 1 \/ k = n
             THEN pc' = "write_external_locations" =>
                    /\ Len(ext_info') = SumSeq(lens)
                    /\ \A i \in 1..n : \A j \in 1..lens[i] :
                          ext_info'[SumSeq(SubSeq(lens, 1, i - 1)) + j]
                              = paired(i).entries[j]
             ELSE /\ pc' = "raised"
                  /\ err'.type = "ValueError"
                  /\ ext_info' = <<>>
      ]_vars

\* one descriptor was given for three scans, and every scan's entry has it
C2_Witness ==
    /\ pc = "write_external_locations"
    /\ Len(expts) = 3
    /\ Len(ext_info) = 3
    /\ locations[1] = locations[3]
    /\ \A i \in 1..3 : ext_info[i].fields.uri.text = locations[1].url.text

\* C3 as stated: when the number of descriptors is neither 1 nor the
\* number of scans, the error is raised before anything is written.
C3_NoOutputBeforeError ==
    (/\ pc = "raised"
     /\ err.at = "gen_external_locations"
     /\ Len(locations) # 1
     /\ Len(locations) # Len(expts)) => outf = <<>>

\* C4 as stated: with a limit L, scan i's row of the scan table starts at
\* 1 + sum of min(f_j, L) over the earlier scans, and every frame id of
\* scan i in the scan-frame table lies inside scan i's range of the scan
\* table.
C4_PreviewIdsInsideScanRange ==
    (frame_limit # NoLimit /\ HasBlock("_diffrn_scan_frame")) =>
        LET sc == RowsOf("_diffrn_scan")
            fr == RowsOf("_diffrn_scan_frame")
        IN /\ \A i \in 1..Len(expts) :
                 FrameNo(sc[i].cells[2]) = 1 + KeptBefore(i)
           /\ \A k \in 1..Len(fr) : ~fr[k].hash =>
                 \E i \in 1..Len(expts) :
                    /\ fr[k].cells[2] = ScanId(i)
                    /\ FrameNo(sc[i].cells[2]) <= FrameNo(fr[k].cells[1])
                    /\ FrameNo(fr[k].cells[1]) <= FrameNo(sc[i].cells[3])

\* C5 as stated: with a limit L, each of the scan-frame, data-frame and
\* external-data tables has, for every scan i in turn, min(f_i, L) rows
\* and then one marker row stating f_i - L exactly when f_i > L.
C5_RowsPerScan ==
    (frame_limit # NoLimit /\ pc = "done") =>
        /\ Shape(RowsOf("_diffrn_scan_frame")) = ShapeUpTo(Len(expts))
        /\ Shape(RowsOf("_diffrn_data_frame")) = ShapeUpTo(Len(expts))
        /\ Shape(RowsOf("_array_data_external_data")) = ShapeUpTo(Len(expts))

\* ----------------------------------------------------------- the axis table
AxisRows == RowsOf("_axis")

\* the depends_on cell of the row of axis id
DependsOn(id) ==
    AxisRows[CHOOSE i \in 1..Len(AxisRows) : AxisRows[i].cells[1] = id].cells[2]

\* the number of hops from id to '.', negative when a name on the way is
\* not an emitted axis or '.' is not reached within fuel hops
RECURSIVE HopsToDot(_, _)
HopsToDot(id, fuel) ==
    IF id = Dot THEN 0
    ELSE IF fuel = 0 \/ ~(\E i \in 1..Len(AxisRows) : AxisRows[i].cells[1] = id)
    THEN -100
    ELSE 1 + HopsToDot(DependsOn(id), fuel - 1)

\* the number of emitted axes of an equipment type
AxesOfType(equipment) ==
    Cardinality({i \in 1..Len(AxisRows) : AxisRows[i].cells[3] = equipment})

\* C6: from every emitted axis, following depends_on reaches '.' in at
\* most as many hops as there are axes of its equipment type; every name
\* on the way is an emitted axis and none is visited twice.
C6_ChainsReachDot ==
    HasBlock("_axis") =>
        \A i \in 1..Len(AxisRows) :
            HopsToDot(AxisRows[i].cells[1], AxesOfType(AxisRows[i].cells[3])) >= 1

\* a slow pixel axis of the second panel that is four hops from '.', next
\* to a goniometer of two axes
C6_Witness ==
    /\ HasBlock("_axis")
    /\ AxesOfType("goniometer") = 2
    /\ \E i \in 1..Len(AxisRows) :
          /\ AxisRows[i].cells[1] = EleAxis(2, "slow")
          /\ HopsToDot(AxisRows[i].cells[1], 6) = 4

\* C7 as stated: no emitted axis is the depends_on target of more than
\* one other axis.
C7_NoBranching ==
    HasBlock("_axis") =>
        \A i, j \in 1..Len(AxisRows) :
            (i # j /\ AxisRows[i].cells[2] # Dot)
                => AxisRows[i].cells[2] # AxisRows[j].cells[2]

\* C7, amended: Trans is the only axis that several axes depend on; the
\* axes that depend on it are the fast pixel axes, one per panel; every
\* other axis is the target of at most one axis.
C7_BranchingOnlyAtTrans ==
    HasBlock("_axis") =>
        LET onTrans == {i \in 1..Len(AxisRows) : AxisRows[i].cells[2] = Trans}
            panels == 1..Len(expts[1].detector)
        IN /\ \A i, j \in 1..Len(AxisRows) :
                 (i # j /\ AxisRows[i].cells[2] # Dot
                        /\ AxisRows[i].cells[2] = AxisRows[j].cells[2])
                     => AxisRows[i].cells[2] = Trans
           /\ Cardinality(onTrans) = Cardinality(panels)
           /\ \A p \in panels :
                 \E i \in onTrans : AxisRows[i].cells[1] = EleAxis(p, "fast")

\* the axes of a detector of two panels, both fast axes on Trans
C7_Witness ==
    /\ HasBlock("_axis")
    /\ Len(expts[1].detector) = 2
    /\ DependsOn(EleAxis(1, "fast")) = Trans
    /\ DependsOn(EleAxis(2, "fast")) = Trans
    /\ DependsOn(EleAxis(2, "slow")) = EleAxis(2, "fast")

\* ----------------------------------------------------------- the frame
\* the base goniometer axis as the input gives it, and as it is emitted
BaseAxisIn == expts[1].goniometer.axes[Len(expts[1].goniometer.axes)]

BaseAxisOut == axes.g[Len(axes.g)].axis

\* the quarter turn that takes (0,1,0) to (1,0,0): (x, y, z) to (y, -x, z)
YToX(v) == << v[2], -v[1], v[3] >>

\* C8: one rotation takes the base goniometer axis to (1,0,0), the
\* identity when it is (1,0,0) already; every goniometer axis and every
\* panel's fast, slow and origin vector is emitted under that rotation.
\* For the base axis (0,1,0): the base axis is emitted as (1,0,0), a slow
\* axis (0,-1,0) as (-1,0,0), a fast axis (1,0,0) as (0,-1,0), and Trans
\* stays (0,0,-1).
C8_FrameRotation ==
    (axes # NoAxes) =>
        LET gon0 == expts[1].goniometer
            R_frame == FrameRotation(BaseAxisIn)
            as_given == ~DictHas(axes.d, TwoTheta)
            panel(p) == expts[1].detector[p]
            fast(p) == DictGet(axes.s, EleAxis(p, "fast"))
            slow(p) == DictGet(axes.s, EleAxis(p, "slow"))
        IN /\ BaseAxisIn = XHat => R_frame = RIdentity
           /\ \A c \in 1..3 : Abs(BaseAxisOut[c] - XHat[c]) <= 1
           /\ \A i \in 1..Len(axes.g) :
                 axes.g[i].axis = RotApply(R_frame, gon0.axes[i])
           /\ as_given =>
                 \A p \in 1..Len(expts[1].detector) :
                    /\ fast(p).axis = RotApply(R_frame, panel(p).fast)
                    /\ slow(p).axis = RotApply(R_frame, panel(p).slow)
                    /\ fast(p).origin[1] = RotApply(R_frame, panel(p).origin)[1]
                    /\ fast(p).origin[2] = RotApply(R_frame, panel(p).origin)[2]
           /\ DictGet(axes.d, Trans).axis = Vec(0, 0, -Scale)
           /\ BaseAxisIn = YHat =>
                 /\ BaseAxisOut = XHat
                 /\ \A i \in 1..Len(axes.g) : axes.g[i].axis = YToX(gon0.axes[i])
                 /\ as_given =>
                       \A p \in 1..Len(expts[1].detector) :
                          /\ fast(p).axis = YToX(panel(p).fast)
                          /\ slow(p).axis = YToX(panel(p).slow)
                          /\ panel(p).fast = XHat => fast(p).axis = Vec(0, -Scale, 0)
                          /\ panel(p).slow = VNeg(YHat) => slow(p).axis = Vec(-Scale, 0, 0)

\* the base axis (0,1,0) with a panel of fast (1,0,0) and slow (0,-1,0)
C8_Witness ==
    /\ axes # NoAxes
    /\ BaseAxisIn = YHat
    /\ Len(axes.g) = 2
    /\ expts[1].detector[1].fast = XHat
    /\ expts[1].detector[1].slow = VNeg(YHat)
    /\ BaseAxisOut = XHat
    /\ DictGet(axes.s, EleAxis(1, "slow")).axis = Vec(-Scale, 0, 0)
    /\ DictGet(axes.s, EleAxis(1, "fast")).axis = Vec(0, -Scale, 0)

\* ----------------------------------------------------------- two-theta
\* the squared distance of a unit normal from (0,0,-1)
Dist2(n) == VDot(VSub(n, BeamOpp), VSub(n, BeamOpp))

\* the normal of the reference panel of scan e in the frame of the output
\* is within 1e-4 of (0,0,-1)
NearReference(e) ==
    LET R_frame == FrameRotation(BaseAxisIn)
        pp == find_perp_panel(expts[e].detector, R_frame)
    IN pp # 0 /\ Dist2(PanelNormal(expts[e].detector[pp], R_frame)) < Tol4 * Tol4

\* the same of the first panel of detector entry k as the file gives it
NearReferenceRaw(k) ==
    Dist2(VUnit(VCross(expts[k].detector[1].fast, expts[k].detector[1].slow)))
        < Tol4 * Tol4

\* the converter: a scan whose reference panel normal is within 1e-4 of
\* (0,0,-1) has the two-theta 0.0 and gives no rotation axis; when every
\* scan is so, there is no Two_Theta axis and Trans depends on '.'
ZeroTwoThetaConverter ==
    (prog = "dials2imgcif" /\ axes # NoAxes) =>
        /\ \A e \in 1..Len(expts) :
              (NearReference(e) /\ DictHas(axes.d, TwoTheta))
                  => /\ DictGet(axes.d, TwoTheta).vals[e] = 0
                     /\ \E o \in 1..Len(expts) : ~NearReference(o)
        /\ (\A e \in 1..Len(expts) : NearReference(e))
              => /\ ~DictHas(axes.d, TwoTheta)
                 /\ DictGet(axes.d, Trans).next = Dot
                 /\ axes.d[1].id = Trans

\* the extractor's _get_two_theta: the angle 0.0 and the null vector for
\* such a panel
ZeroTwoThetaExtractorPanel ==
    prog = "creator" =>
        \A k \in 1..Len(panel_2theta) :
            NearReferenceRaw(k)
                => panel_2theta[k].ang = 0 /\ panel_2theta[k].axs = Vec(0, 0, 0)

\* the extractor's result for the scans: the two-theta of such a scan is 0.0
ZeroTwoThetaExtractorScans ==
    (prog = "creator" /\ pc = "done") =>
        \A s \in 1..n_scan_info : NearReferenceRaw(s) => det_rot[2][s] = 0

\* C9 as stated: whenever the reference panel normal of a scan is within
\* 1e-4 of (0,0,-1), the two-theta of that scan is exactly 0.0 and no
\* rotation axis comes from it; when this is so for every scan there is
\* no Two_Theta axis and Trans is the base detector axis; in the
\* converter and in the extractor alike.
C9_ZeroTwoTheta ==
    /\ ZeroTwoThetaConverter
    /\ ZeroTwoThetaExtractorPanel
    /\ ZeroTwoThetaExtractorScans

\* ----------------------------------------------------------- scan axes
\* write_scan_info has been called
ScanInfoCalled ==
    /\ prog = "dials2imgcif"
    /\ HasBlock("_array_structure_list")
    /\ pc # "write_scan_info"

\* the row the scan table should have for scan s and the goniometer axis i
GonScanRow(s, i) ==
    LET sc == expts[s].scan
    IN IF axes.g[i].id = ScanAx(expts[s])
       THEN << ScanId(s), axes.g[i].id, Dot, Dot, Dot,
               Fmt2(sc.oscillation[1]), Fmt4(sc.oscillation[2]),
               Fmt2(sc.oscillation[2] * sc.num_images) >>
       ELSE << ScanId(s), axes.g[i].id, Dot, Dot, Dot,
               Fmt2(expts[s].goniometer.angles[i]), Float0, Float0 >>

\* the row the scan table should have for scan s and the detector axis i
DetScanRow(s, i) ==
    IF axes.d[i].id = Trans
    THEN << ScanId(s), Trans, Fmt2(axes.d[i].vals[s]), Float0, Float0, Dot, Dot, Dot >>
    ELSE << ScanId(s), axes.d[i].id, Dot, Dot, Dot,
            Fmt2(axes.d[i].vals[s]), Float0, Float0 >>

\* the scan table has the rows of GonScanRow and DetScanRow, scan by scan
ScanAxisTableRight ==
    /\ HasBlock("_diffrn_scan_axis")
    /\ LET rows == RowsOf("_diffrn_scan_axis")
           ng == Len(axes.g)
           m == Len(axes.g) + Len(axes.d)
       IN /\ Len(rows) = Len(expts) * m
          /\ \A s \in 1..Len(expts) :
                /\ \A i \in 1..ng :
                      rows[(s - 1) * m + i].cells = GonScanRow(s, i)
                /\ \A i \in 1..Len(axes.d) :
                      rows[(s - 1) * m + ng + i].cells = DetScanRow(s, i)

\* C10 as stated: for every scan write_scan_info emits one row per
\* goniometer axis and per detector axis: (start, increment, increment x
\* frames) for the scan axis of the scan, the axis's value of the scan with
\* increment 0 and range 0 for any other, in the displacement columns for
\* Trans and in the angle columns for a rotation axis.
C10_ScanAxisRows == ScanInfoCalled => ScanAxisTableRight


\* ----------------------------------------------------------- HDF5 rows
\* the members of the master file of scan s that are named data_<digits>
H5Members(s) == SelectSeq(expts[s].imageset.data_grp, LAMBDA d : d.is_data)

\* the place of the member d of scan s when the names are sorted
H5Rank(s, d) ==
    1 + Cardinality({ i \in 1..Len(H5Members(s)) :
                         DigitsLess(H5Members(s)[i].digits, d.digits) })

\* the j-th dataset of scan s in the order of the names
H5Dataset(s, j) ==
    H5Members(s)[CHOOSE i \in 1..Len(H5Members(s)) : H5Rank(s, H5Members(s)[i]) = j]

\* the frames of the datasets of scan s before the j-th
H5FramesBefore(s, j) == SumSeq([i \in 1..(j - 1) |-> H5Dataset(s, i).n])

\* the frames of the datasets of the scans before s
H5ScansBefore(s) ==
    SumSeq([t \in 1..(s - 1) |-> H5FramesBefore(t, Len(H5Members(t)) + 1)])

\* C14: for HDF5 input without truncation the external-data table has one
\* group of rows per dataset named data_<digits>, in the order of the
\* names; the group of a dataset of c frames has c rows with that dataset's
\* file and dataset path, the frame index running 1..c within the file and
\* the row id counting on over all files; so the table has as many rows as
\* the datasets have frames
C14_Hdf5RowGroups ==
    (pc = "done" /\ frame_limit = NoLimit /\ expts[1].imageset.data_grp # <<>>) =>
        LET rows == RowsOf("_array_data_external_data")
        IN /\ Len(rows) = H5ScansBefore(Len(expts) + 1)
           /\ \A s \in 1..Len(expts) : \A j \in 1..Len(H5Members(s)) :
                 \A c \in 1..H5Dataset(s, j).n :
                    LET k == H5ScansBefore(s) + H5FramesBefore(s, j) + c
                    IN /\ rows[k].cells[1] = k
                       /\ rows[k].cells[2] = "HDF5"
                       /\ rows[k].cells[5].name = H5Dataset(s, j).filename
                       /\ rows[k].cells[6] = H5Dataset(s, j).path
                       /\ rows[k].cells[7] = c

\* two scans of three frames, each in two files that the master file lists
\* with the second name first: rows 3 and 6 are frame 1 of the files x_002
C14_Witness ==
    /\ pc = "done"
    /\ frame_limit = NoLimit
    /\ Len(expts) = 2
    /\ \A s \in 1..2 :
          /\ expts[s].scan.num_images = 3
          /\ Len(H5Members(s)) = 2
          /\ H5Members(s)[1].digits = <<0, 0, 2>>
    /\ LET rows == RowsOf("_array_data_external_data")
       IN /\ Len(rows) = 6
          /\ rows[2].cells[7] = 2 /\ rows[2].cells[5].name.num = <<0, 0, 1>>
          /\ rows[3].cells[7] = 1 /\ rows[3].cells[5].name.num = <<0, 0, 2>>
          /\ rows[6].cells[1] = 6 /\ rows[6].cells[7] = 1

\* the datasets of some scan do not add up to its declared frame count
H5Mismatch ==
    \E s \in 1..Len(expts) :
        /\ expts[s].imageset.data_grp # <<>>
        /\ H5FramesBefore(s, Len(H5Members(s)) + 1) # expts[s].scan.num_images

\* C15: for an HDF5 scan whose datasets' frame counts do not add up to the
\* declared frame count, gen_external_locations fails and returns no
\* location information, and no external-data table is written
C15_FrameSumMismatchFails ==
    H5Mismatch =>
        /\ pc \notin {"write_external_locations", "done"}
        /\ ext_info = <<>>
        /\ ~HasBlock("_array_data_external_data")
        /\ pc = "raised" =>
              /\ err.at = "gen_external_locations"
              /\ err.type \in {"AssertionError", "ValueError"}
              /\ (Len(locations) = Len(expts) => err.type = "AssertionError")

\* gen_external_locations has failed on the frame counts of a batch of
\* two scans, after the tables before it were written
C15_Witness ==
    /\ H5Mismatch
    /\ Len(expts) = 2
    /\ pc = "raised"
    /\ err = [type |-> "AssertionError", at |-> "gen_external_locations"]
    /\ HasBlock("_array_data")

\* C18: location resolution is a pure function of its inputs:
\* gen_external_locations, and therefore make_cif, leaves the list of
\* location descriptors of the caller unchanged, in length and in content,
\* for any number of scans
C18_LocationsUnchanged == [][locations' = locations]_vars

\* some scan has another goniometer type, or other axis names, than the first
GonMismatch ==
    \E e \in 2..Len(expts) :
        \/ expts[e].goniometer.multi # expts[1].goniometer.multi
        \/ expts[e].goniometer.names # expts[1].goniometer.names

\* C21: get_gon_axes checks the goniometer of every scan against the first
\* one: a batch in which some scan has another goniometer type or other
\* axis names fails at that check, whether the goniometer of the first scan
\* has a single axis or several
C21_GonMismatchFails ==
    (prog = "dials2imgcif" /\ GonMismatch
     /\ pc \notin {"start", "write_beam_info", "get_axes_info"}) =>
        /\ pc = "raised"
        /\ err = [type |-> "AssertionError", at |-> "get_axes_info"]

\* the cells in column col of the rows of a table that are not comment rows
ColumnOf(name, col) ==
    LET rows == SelectSeq(RowsOf(name), LAMBDA r : ~r.hash)
    IN [i \in 1..Len(rows) |-> rows[i].cells[col]]

\* C22: for any batch and any truncation limit the external-data ids
\* listed in _array_data and the ids of the rows of
\* _array_data_external_data are the same set 1..N: every image a frame
\* refers to has exactly one external-data row and every external-data row
\* is referred to, also for HDF5 scans spread over several files
C22_ExternalIdsMatch ==
    pc = "done" =>
        LET used == ColumnOf("_array_data", 3)
            given == ColumnOf("_array_data_external_data", 1)
        IN /\ used = [i \in 1..Len(used) |-> i]
           /\ given = used

\* C24: every detector_element_id used in _diffrn_data_frame is an id
\* declared in _diffrn_detector_element (the claim says the same of the
\* array_id of _diffrn_data_frame and _array_data and the array_id
\* declared in _array_structure_list)
C24_ElementIdsDeclared ==
    pc = "done" =>
        LET declared == ColumnOf("_diffrn_detector_element", 1)
            used == ColumnOf("_diffrn_data_frame", 2)
        IN \A i \in 1..Len(used) : \E j \in 1..Len(declared) : used[i] = declared[j]

\* =================================================================
\* Functions called on their own
\* =================================================================
\* the call returns r, or raises r.err
Return(fn, r) ==
    /\ prog = "function"
    /\ pc = "start"
    /\ call.fn = fn
    /\ ret' = r
    /\ pc' = IF r.err = "" THEN "returned" ELSE "raised"
    /\ UNCHANGED << prog, expts, locations, file_type, frame_limit, outf, axes,
                    ext_info, err, panel_2theta, det_rot, n_scan_info, args, call, ui_vars >>

\* -----------------------------------------------------------------
\* imgCIF_Creator: Extractor._scan_info_expt (dials_expt.py)
\* -----------------------------------------------------------------
\* a scan of the input file: image_range, oscillation = (start, increment)
RawScan(first, last, start, step) ==
    [image_range |-> <<first, last>>, oscillation |-> <<start, step>>,
     exposure_time |-> [i \in 1..(last - first + 1) |-> 100]]

\* name.split('_')[1].lower()
AxisLower(name) ==
    CASE name = <<"GON_PHI">> -> "phi"
      [] name = <<"GON_OMEGA">> -> "omega"
      [] name = <<"GON_KAPPA">> -> "kappa"

\* Extractor.get_axes_position_dict: the angles by axis name, the scan axis
\* moved on to its position in the last frame
get_axes_position_dict(expt_gonio_axes, n_frames, scan_incr) ==
    [i \in 1..Len(expt_gonio_axes.names) |->
        << AxisLower(expt_gonio_axes.names[i]),
           expt_gonio_axes.angles[i]
           + (IF i = expt_gonio_axes.scan_axis THEN (n_frames - 1) * scan_incr ELSE 0) >>]

\* the body of the loop of _scan_info_expt, for one scan
ScanDetails(scan, gonio, det_origin) ==
    LET n_frames == scan.image_range[2] - scan.image_range[1] + 1
        osc_range == scan.oscillation
        scan_incr == osc_range[2] - osc_range[1]
    IN [axes_settings |->
            Append(get_axes_position_dict(gonio, n_frames, scan_incr),
                   << "distance", det_origin[3] >>),
        scan_details |->
            [frames |-> n_frames,
             axis |-> AxisLower(gonio.names[gonio.scan_axis]),
             incr |-> scan_incr,
             time |-> scan.exposure_time[1],
             start |-> gonio.angles[gonio.scan_axis],
             range |-> scan_incr * n_frames]]

\* Extractor._scan_info_expt: KeyError when a goniometer has no 'scan_axis'
Extractor_scan_info_expt(scan_frame_info, scan_gonio_axes, det_origin) ==
    IF \E i \in 1..Len(scan_frame_info) : ~scan_gonio_axes[i].multi
    THEN [err |-> "KeyError", scan_info |-> <<>>]
    ELSE [err |-> "",
          scan_info |-> [i \in 1..Len(scan_frame_info) |->
                            ScanDetails(scan_frame_info[i], scan_gonio_axes[i],
                                        det_origin[i])]]

\* the scans of an input file: the start angle is zero or not
RawScans ==
    { RawScan(1, n, start, step) :
         n \in 1..MaxFrames, start \in {0, 1234, -450000}, step \in {10000, 2500} }

ScanInfoCalls ==
    { [fn |-> "_scan_info_expt", scan |-> <<sc>>, goniometer |-> <<g>>,
       det_origin |-> << StdPanel.origin >>] :
         sc \in RawScans, g \in Goniometers }
    \cup
    { [fn |-> "_scan_info_expt", scan |-> <<s1, s2>>, goniometer |-> <<g, g>>,
       det_origin |-> << StdPanel.origin, StdPanel.origin >>] :
         s1 \in {RawScan(1, 2, 0, 10000)}, s2 \in RawScans,
         g \in {gg \in Goniometers : gg.multi} }

ScanInfoExpt ==
    Return("_scan_info_expt",
           Extractor_scan_info_expt(call.scan, call.goniometer, call.det_origin))


\* -----------------------------------------------------------------
\* dials2imgcif: encode_scan_step on the characters of a template
\* -----------------------------------------------------------------
MaxTemplateLen == 5

DigitChar(d) == << "0", "1", "2", "3", "4", "5", "6", "7", "8", "9" >>[d + 1]

\* f"{val}" as characters: the value without padding
FormatPlain(val, width) ==
    LET z == Digits(val) IN [i \in 1..Len(z) |-> DigitChar(z[i])]

\* f"{val:0{width}}" as characters
Format0(val, width) ==
    LET z == ZeroPad(Digits(val), width) IN [i \in 1..Len(z) |-> DigitChar(z[i])]

RECURSIVE HashRun(_, _)
\* the length of the longest run of '#' that starts at position i
HashRun(template, i) ==
    IF i <= Len(template) /\ template[i] = "#" THEN 1 + HashRun(template, i + 1) ELSE 0

RECURSIVE re_sub(_, _, _)
\* re.sub(r"(#+)\.", repl, template) from position i on: the pattern matches
\* at i when the greedy run of '#' that starts there is followed by '.', and
\* repl gives the padded value and the '.'; without a match the character
\* is copied and the search moves on by one
re_sub(template, val, i) ==
    IF i > Len(template) THEN <<>>
    ELSE LET width == HashRun(template, i)
         IN IF width > 0 /\ i + width <= Len(template) /\ template[i + width] = "."
            THEN Format0(val, width) \o <<".">> \o re_sub(template, val, i + width + 1)
            ELSE << template[i] >> \o re_sub(template, val, i + 1)

\* encode_scan_step, the template given as its characters
encode_scan_step_chars(template, val) == re_sub(template, val, 1)

TemplateChars == {"#", ".", "a"}

Templates == UNION { [1..n -> TemplateChars] : n \in 1..MaxTemplateLen }

EncodeCalls ==
    { [fn |-> "encode_scan_step", template |-> t, val |-> v] :
         t \in Templates, v \in {7, 12, 345} }

EncodeScanStep ==
    Return("encode_scan_step",
           [err |-> "", text |-> encode_scan_step_chars(call.template, call.val)])

\* -----------------------------------------------------------------
\* dials2imgcif: write_frame_ids on batches of many scans
\* -----------------------------------------------------------------
MaxLabelScans == 12

LabelCalls ==
    { [fn |-> "write_frame_ids",
       expts |-> [i \in 1..n |->
                     Experiment(SingleAxis(YHat), << StdPanel >>,
                                ScanOf(fr, 0, 10000), CbfImageset)],
       scan_frame_limit |-> limit] :
         n \in 1..MaxLabelScans, fr \in 1..2, limit \in {NoLimit, 1} }

WriteFrameIdsAlone ==
    Return("write_frame_ids", write_frame_ids(call.expts, call.scan_frame_limit))

\* -----------------------------------------------------------------
\* dials2imgcif: cif_loop on tables of its own
\* -----------------------------------------------------------------
MaxFields == 3
MaxRows == 2

\* the lines "\n".join(lines) joins: loop_, one line per field, an empty
\* line, one line per row, two empty lines
loop_lines(block) ==
    << "loop_" >>
    \o [f \in 1..Len(block.fields) |-> << block.name, block.fields[f] >>]
    \o << "" >>
    \o [r \in 1..Len(block.rows) |-> block.rows[r].cells]
    \o << "", "" >>

\* rows of 0..MaxFields + 1 cells, comment rows, a one-cell row that is no
\* comment, and a row of two cells that starts with '#'
LoopRowChoices ==
    { Row([c \in 1..m |-> <<"v", c>>]) : m \in 0..(MaxFields + 1) }
    \cup { CutRow(1),
           [cells |-> << <<"#c", 1>>, <<"v", 2>> >>, hash |-> TRUE] }

LoopCalls ==
    { [fn |-> "cif_loop", base_name |-> "_x",
       fields |-> [f \in 1..k |-> <<"f", f>>], rows |-> rows] :
         k \in 1..MaxFields,
         rows \in UNION { [1..n -> LoopRowChoices] : n \in 0..MaxRows } }

CifLoopStep(r) ==
    Return("cif_loop",
           IF r.err = "" THEN [err |-> "", text |-> r.text, lines |-> loop_lines(r.text[1])]
           ELSE [err |-> r.err, text |-> <<>>, lines |-> <<>>])

CifLoop == CifLoopStep(cif_loop(call.base_name, call.fields, call.rows))

\* -----------------------------------------------------------------
\* the specification of the calls
\* -----------------------------------------------------------------
UnitCalls == ScanInfoCalls \cup EncodeCalls \cup LabelCalls \cup LoopCalls

InitUnit ==
    /\ prog = "function"
    /\ call \in UnitCalls
    /\ expts = <<>>
    /\ locations = <<>>
    /\ frame_limit = NoLimit
    /\ n_scan_info = 0
    /\ file_type = NoneStr
    /\ pc = "start"
    /\ outf = <<>>
    /\ axes = NoAxes
    /\ ext_info = <<>>
    /\ err = NoErr
    /\ panel_2theta = <<>>
    /\ det_rot = <<>>
    /\ args = NoArgs
    /\ ret = NoRet
    /\ InitUi

NextUnit ==
    \/ ScanInfoExpt
    \/ EncodeScanStep
    \/ WriteFrameIdsAlone
    \/ CifLoop

SpecUnit == InitUnit /\ [][NextUnit]_vars

\* =================================================================
\* Properties of the calls
\* =================================================================
\* C11: for every scan read from an experiment description, the recorded
\* angle increment is the increment of the scan's oscillation pair
\* (start, increment) and the recorded range is increment x frame count,
\* whatever the start angle is
C11_IncrementAndRange ==
    (call.fn = "_scan_info_expt" /\ pc = "returned") =>
        \A i \in 1..Len(call.scan) :
            LET sc == call.scan[i]
                d == ret.scan_info[i].scan_details
            IN /\ d.incr = sc.oscillation[2]
               /\ d.range = sc.oscillation[2] * d.frames
               /\ d.frames = sc.image_range[2] - sc.image_range[1] + 1


\* n in decimal, with zeros in front up to the width k
Padded(n, k) ==
    LET d == Digits(n)
        zeros == IF k > Len(d) THEN k - Len(d) ELSE 0
    IN [i \in 1..(zeros + Len(d)) |->
           IF i <= zeros THEN "0" ELSE DigitChar(d[i - zeros])]

RECURSIVE HashesBefore(_, _)
\* the number of '#' that end the first i characters of t
HashesBefore(t, i) == IF i >= 1 /\ t[i] = "#" THEN 1 + HashesBefore(t, i - 1) ELSE 0

RECURSIVE Resolved(_, _, _)
\* the first i characters of t, where each run of k '#' that stands
\* immediately before a '.' is n in decimal, zero-padded to width k, and
\* every other character is as it was (read from the end of t)
Resolved(t, n, i) ==
    IF i = 0 THEN <<>>
    ELSE LET k == IF t[i] = "." THEN HashesBefore(t, i - 1) ELSE 0
         IN IF k > 0
            THEN Resolved(t, n, i - 1 - k) \o Padded(n, k) \o <<".">>
            ELSE Append(Resolved(t, n, i - 1), t[i])

\* the template has a run of '#' immediately before a '.'
HasPlaceholder(t) == \E i \in 2..Len(t) : t[i] = "." /\ t[i - 1] = "#"

\* where the runs of '#' that stand immediately before a '.' start
PlaceholderRuns(t) ==
    { p \in 1..Len(t) :
         /\ t[p] = "#"
         /\ (p = 1 \/ t[p - 1] # "#")
         /\ p + HashRun(t, p) <= Len(t)
         /\ t[p + HashRun(t, p)] = "." }

\* C12: encode_scan_step(template, n) replaces the run of k '#' that stands
\* immediately before the '.' of the suffix with n in decimal, zero-padded
\* to width k, leaves every other character unchanged, and returns a
\* template without such a run unchanged
C12_EncodeScanStep ==
    (call.fn = "encode_scan_step" /\ pc = "returned") =>
        /\ ret.text = Resolved(call.template, call.val, Len(call.template))
        /\ ~HasPlaceholder(call.template) => ret.text = call.template
        /\ \A p \in PlaceholderRuns(call.template) :
              PlaceholderRuns(call.template) = {p} =>
                 ret.text = SubSeq(call.template, 1, p - 1)
                            \o Padded(call.val, HashRun(call.template, p))
                            \o SubSeq(call.template, p + HashRun(call.template, p),
                                      Len(call.template))

\* a##.a with n = 7 has become a07.a
C12_Witness ==
    /\ call.fn = "encode_scan_step"
    /\ pc = "returned"
    /\ call.template = << "a", "#", "#", ".", "a" >>
    /\ call.val = 7
    /\ ret.text = << "a", "0", "7", ".", "a" >>


\* =================================================================
\* Properties of main
\* =================================================================
\* the rows of the external-data table that are not comment rows
ExtDataRows ==
    SelectSeq(RowsOf("_array_data_external_data"), LAMBDA r : ~r.hash)

\* the directories of path below the directory root
RelativeParts(path, root) == SubSeq(path.parts, Len(root) + 1, Len(path.parts))

\* C13: in directory-location mode the URI of a frame file is the base URL
\* joined with the file's path relative to the configured root directory,
\* so a file in a sub-directory of the root keeps that sub-directory
C13_DirectoryUriKeepsSubdir ==
    (pc = "done" /\ args.given /\ args.url_base # <<>>) =>
        \A k \in 1..Len(ExtDataRows) :
            LET uri == ExtDataRows[k].cells[3]
            IN /\ uri.uri.text = args.url_base[1].text
               /\ uri.rel.name.stem = CbfTemplate.name.stem
               /\ uri.rel.parts = RelativeParts(CbfTemplate, args.dir)


\* C16: when the user gives a format override (-f/--format), the format of
\* every row of the external-data table is the override, whatever the file
\* suffix or the reader class of the images
C16_FormatOverride ==
    (pc = "done" /\ args.given /\ args.format # NoneStr) =>
        \A k \in 1..Len(ExtDataRows) : ExtDataRows[k].cells[2] = args.format


\* the archive type that the end of a URL stands for
SuffixType(url) ==
    LET n == Len(url.text)
        last == url.text[n]
        tar == n >= 2 /\ url.text[n - 1] = ".tar"
    IN CASE last = ".tgz" \/ (tar /\ last = ".gz") -> "TGZ"
         [] last = ".tbz" \/ (tar /\ last = ".bz2") -> "TBZ"
         [] last = ".txz" \/ (tar /\ last = ".xz") -> "TXZ"
         [] last = ".zip" -> "ZIP"
         [] OTHER -> "???"

\* the archive type of the i-th URL of the command line
ArchiveTypeOf(i) ==
    IF args.archive_type # NoneStr THEN args.archive_type ELSE SuffixType(args.url[i])

\* C17: in archive-location mode the archive type of each URL is the
\* explicit override when one is given, otherwise the type the URL suffix
\* stands for (.tgz/.tar.gz TGZ, .tbz/.tar.bz2 TBZ, .txz/.tar.xz TXZ,
\* .zip ZIP) and the unknown sentinel for any other URL; the detection
\* never raises and the conversion goes on
C17_ArchiveType ==
    (args.given /\ args.url # <<>> /\ args.url_base = <<>> /\ pc # "main") =>
        /\ pc # "raised"
        /\ pc = "start" =>
              /\ Len(locations) = Len(args.url)
              /\ \A i \in 1..Len(locations) :
                    /\ locations[i].kind = "archive"
                    /\ locations[i].archive_type = ArchiveTypeOf(i)
        /\ pc = "done" =>
              \A k \in 1..Len(ExtDataRows) : ExtDataRows[k].cells[4] = ArchiveTypeOf(1)

\* a URL that ends in .tar.gz?download=1, without an override: the table
\* is written with the unknown sentinel
C17_Witness ==
    /\ pc = "done"
    /\ args.given
    /\ args.archive_type = NoneStr
    /\ Len(args.url) = 1
    /\ args.url[1].text[Len(args.url[1].text)] = ".gz?download=1"
    /\ Len(ExtDataRows) >= 1
    /\ ExtDataRows[1].cells[4] = "???"


\* the scan labels of the _diffrn_scan table that the call has written
ScanLabels == [i \in 1..Len(ret.text[1].rows) |-> ret.text[1].rows[i].cells[1]]

\* C19: scan identifiers are assigned in input order, 1-based, with a
\* fixed-width label: scan i of the batch gets the label of i, and all scan
\* labels of a batch have the same length for any number of scans
C19_FixedWidthScanLabels ==
    (call.fn = "write_frame_ids" /\ pc = "returned") =>
        /\ Len(ScanLabels) = Len(call.expts)
        /\ \A i \in 1..Len(ScanLabels) :
              /\ ScanLabels[i][1] = "SCAN."
              /\ SubSeq(ScanLabels[i], 2, Len(ScanLabels[i])) = Digits(i)
        /\ \A i, j \in 1..Len(ScanLabels) : Len(ScanLabels[i]) = Len(ScanLabels[j])


\* row i of the call is a comment row: one cell, which starts with '#'
IsCommentRow(i) == Len(call.rows[i].cells) = 1 /\ call.rows[i].hash

\* a row of the call that is no comment row has not one cell per field
SomeRowOffLength ==
    \E i \in 1..Len(call.rows) :
        ~IsCommentRow(i) /\ Len(call.rows[i].cells) # Len(call.fields)

\* C20: cif_loop raises an error, producing no text, if any row's length
\* differs from the number of fields, except that a row of one element that
\* starts with '#' is exempt from the length check and emitted as it is;
\* otherwise it emits exactly one line per row, in the order of the rows
C20_CifLoop ==
    (call.fn = "cif_loop" /\ pc # "start") =>
        IF SomeRowOffLength
        THEN pc = "raised" /\ ret.err = "ValueError" /\ ret.lines = <<>>
        ELSE /\ pc = "returned"
             /\ Len(ret.lines) = Len(call.fields) + Len(call.rows) + 4
             /\ \A i \in 1..Len(call.rows) :
                   ret.lines[Len(call.fields) + 2 + i] = call.rows[i].cells

\* a table of three fields with a comment row before a full row
C20_Witness ==
    /\ call.fn = "cif_loop"
    /\ pc = "returned"
    /\ Len(call.fields) = 3
    /\ Len(call.rows) = 2
    /\ IsCommentRow(1)
    /\ Len(call.rows[2].cells) = 3
    /\ ret.lines[6] = call.rows[1].cells
    /\ ret.lines[7] = call.rows[2].cells


\* =================================================================
\* make_cif as one call (dials2imgcif.py)
\* =================================================================
\* two calls one after the other: the second is made when the first returned
Both(a, b) ==
    IF a.err # "" THEN [err |-> a.err, text |-> a.text]
    ELSE [err |-> b.err, text |-> a.text \o b.text]

\* write_doi
write_doi(d) ==
    IF d # NoDoi
    THEN << Block("_database", <<"dataset_doi">>, << Row(<<d>>) >>) >>
    ELSE <<>>

\* the header, write_doi and write_beam_info
CifHead(es, data_name, d) ==
    Both([err |-> "", text |-> write_header(data_name) \o write_doi(d)],
         write_beam_info(es))

\* write_axis_info .. write_frame_images, given what get_axes_info returned
CifTables(es, limit, ax) ==
    IF ax.err # "" THEN [err |-> ax.err, text |-> <<>>]
    ELSE Both(write_axis_info(ax.g, ax.d, ax.s),
         Both(write_array_info("DETECTOR", Len(es[1].detector), ax.s, ax.d),
         Both(write_scan_info(es, ax.g, ax.d),
         Both(write_frame_ids(es, limit), write_frame_images(es, limit)))))

\* write_external_locations, given what gen_external_locations returned
CifExt(limit, g) ==
    IF g.err # "" THEN [err |-> g.err, text |-> <<>>]
    ELSE write_external_locations(g.ext_info, limit)

\* make_cif up to the call of gen_external_locations
CifBeforeExt(es, data_name, d, limit) ==
    Both(CifHead(es, data_name, d), CifTables(es, limit, get_axes_info(es)))

\* make_cif: what it raised, what it wrote, and the caller's list of
\* locations afterwards (gen_external_locations extends it in place)
make_cif(es, data_name, locs, d, ftype, limit) ==
    [out |-> Both(CifBeforeExt(es, data_name, d, limit),
                  CifExt(limit, gen_external_locations(es, locs, ftype))),
     locations |-> IF CifBeforeExt(es, data_name, d, limit).err = ""
                   THEN LocationsAfter(es, locs) ELSE locs]

\* =================================================================
\* The GUI backend (imgcif_backend.py)
\* =================================================================
COMMANDS ==
    {"reset", "add_paths", "set_expt", "set_download_files",
     "set_download_archives", "set_doi"}

\* the parameters a handler must get and the ones it may get
Required(command) ==
    CASE command = "reset" -> {}
      [] command = "add_paths" -> {"paths"}
      [] command = "set_expt" -> {"path"}
      [] command = "set_download_files" -> {"url"}
      [] command = "set_download_archives" -> {"url", "local_dir"}
      [] command = "set_doi" -> {"doi"}

Optional(command) ==
    IF command = "set_download_archives" THEN {"archive_type"} ELSE {}

\* a message [command, kwargs]: the keys of kwargs and their values. n is
\* the number of experiments dxtbx loads from the paths (LoadFails when it
\* raises), url / dir / archive_type / doi the strings typed in the window
Message(command, keys, n, url, dir, archive_type, d) ==
    [command |-> command, keys |-> keys, n |-> n, url |-> url, dir |-> dir,
     archive_type |-> archive_type, doi |-> d]

LoadFails == -1

\* the experiments dxtbx loads: n one-frame CBF scans of one instrument
Loaded(n) ==
    [i \in 1..n |-> Experiment(SingleAxis(YHat), << StdPanel >>,
                               ScanOf(1, 0, 10000), CbfImageset)]

\* url.rpartition('/')[0]: the last piece of the text starts at its last '/'
RPartitionHead(url) ==
    IF url.text = <<>> THEN url
    ELSE Url(SubSeq(url.text, 1, Len(url.text) - 1), 0)

\* the handlers of the Backend object b = [err, expts, locations, doi]
Backend_reset(b) == [b EXCEPT !.expts = <<>>]

Backend_add_paths(b, m) ==
    IF m.n = LoadFails THEN [b EXCEPT !.err = "Exception"]
    ELSE [b EXCEPT !.expts = @ \o Loaded(m.n)]

Backend_set_expt(b, m) ==
    IF m.n = LoadFails THEN [b EXCEPT !.err = "Exception"]
    ELSE [b EXCEPT !.expts = Loaded(m.n)]

Backend_set_download_files(b, m) ==
    [b EXCEPT !.locations = << DirectoryUrl(RPartitionHead(m.url)) >>]

Backend_set_download_archives(b, m) ==
    [b EXCEPT !.locations =
        << ArchiveUrl(m.url, m.dir,
                      IF "archive_type" \in m.keys
                      THEN OrElse(m.archive_type, guess_archive_type(m.url))
                      ELSE guess_archive_type(m.url)) >>]

Backend_set_doi(b, m) == [b EXCEPT !.doi = m.doi]

\* assert command in backend.COMMANDS; getattr(backend, command)(**kwargs):
\* AssertionError for an unknown command, TypeError for keywords that are
\* not the handler's parameters
Dispatch(b, m) ==
    IF m.command \notin COMMANDS THEN [b EXCEPT !.err = "AssertionError"]
    ELSE IF ~(/\ Required(m.command) \subseteq m.keys
              /\ m.keys \subseteq Required(m.command) \cup Optional(m.command))
    THEN [b EXCEPT !.err = "TypeError"]
    ELSE CASE m.command = "reset" -> Backend_reset(b)
           [] m.command = "add_paths" -> Backend_add_paths(b, m)
           [] m.command = "set_expt" -> Backend_set_expt(b, m)
           [] m.command = "set_download_files" -> Backend_set_download_files(b, m)
           [] m.command = "set_download_archives" -> Backend_set_download_archives(b, m)
           [] m.command = "set_doi" -> Backend_set_doi(b, m)

\* DOI_RULES: the text a download URL has to start with (digits follow),
\* and the text the DOI starts with
DOI_RULES ==
    << [url |-> "https://zenodo.org/records/", doi |-> "10.5281/zenodo."],
       [url |-> "https://data.sbgrid.org/10.15785/SBGRID/", doi |-> "10.15785/SBGRID/"],
       [url |-> "https://xrda.pdbj.org/rest/public/entries/download/",
        doi |-> "10.51093/xrd-"] >>

\* re.match(url_pat, u): the first piece of u is the rule's text and the
\* second piece is the run of digits
ReMatch(rule, u) == Len(u.text) >= 2 /\ u.text[1] = rule.url

RECURSIVE GuessFrom(_, _)
GuessFrom(urls, k) ==
    IF k > Len(DOI_RULES) THEN NoDoi
    ELSE IF /\ \A i \in 1..Len(urls) : ReMatch(DOI_RULES[k], urls[i])
            /\ \A i \in 2..Len(urls) : urls[i].text[2] = urls[1].text[2]
    THEN << DOI_RULES[k].doi, urls[1].text[2] >>
    ELSE GuessFrom(urls, k + 1)

\* Backend.guess_doi
guess_doi(locs) ==
    LET known == SelectSeq(locs, LAMBDA l : l.kind \in {"archive", "directory"})
    IN IF known = <<>> THEN NoDoi
       ELSE GuessFrom([i \in 1..Len(known) |-> known[i].url], 1)

\* the frame_limit of the preview
PreviewFrames == 5

\* cif_preview: None, or the text
NoPreview == [none |-> TRUE, text |-> <<>>]
Preview(text) == [none |-> FALSE, text |-> text]

\* the dictionary state() returns
StateDict(es, ftype, d, locs, preview) ==
    [n_expts |-> Len(es),
     n_frames |-> SumSeq(NumImages(es)),
     file_type |-> ftype,
     doi_set |-> d # NoDoi,
     doi |-> IF d # NoDoi THEN d ELSE guess_doi(locs),
     cif_preview |-> preview]

\* Backend.state with experiments, given what make_cif did
StateWith(es, d, r) ==
    [msg |-> StateDict(es,
                       guess_file_type(es[1].imageset.template.name,
                                       es[1].imageset.format_class),
                       d, r.locations,
                       IF r.out.err # "" THEN NoPreview ELSE Preview(r.out.text)),
     locations |-> r.locations,
     err |-> r.out.err]

\* Backend.state: the message, the object's download_locations afterwards
\* and the exception whose traceback it printed
Backend_state(es, locs, d) ==
    IF es # <<>>
    THEN StateWith(es, d, make_cif(es, "preview", locs, NoDoi, NoneStr, PreviewFrames))
    ELSE [msg |-> StateDict(es, "", d, locs, Preview(<<>>)),
          locations |-> locs, err |-> ""]

\* the else branch of main's loop: sock.sendall(['state', backend.state()])
Answer(m, b, st) ==
    /\ expts' = b.expts
    /\ doi' = b.doi
    /\ locations' = st.locations
    /\ sock' = [to_backend |-> Tail(sock.to_backend),
                to_frontend |-> Append(sock.to_frontend, st.msg)]
    /\ err' = IF st.err # "" THEN [type |-> st.err, at |-> "state"] ELSE err

\* a loop that answers every command, also one that was rejected or failed
TurnAlwaysAnswers(m, b) ==
    /\ handled' = Append(handled, m)
    /\ Answer(m, [b EXCEPT !.err = ""], Backend_state(b.expts, b.locations, b.doi))

\* one turn of main's loop with the Backend object after the dispatch: the
\* except branch prints the traceback and sends nothing
Turn(m, b) ==
    /\ handled' = Append(handled, m)
    /\ IF b.err # ""
       THEN /\ err' = [type |-> b.err, at |-> m.command]
            /\ sock' = [sock EXCEPT !.to_backend = Tail(@)]
            /\ UNCHANGED << expts, locations, doi >>
       ELSE Answer(m, b, Backend_state(b.expts, b.locations, b.doi))

\* for line in line_helper(sock): ... (imgcif_backend.main)
BackendLoop ==
    /\ prog = "imgcif_backend"
    /\ pc = "loop"
    /\ sock.to_backend # <<>>
    /\ Turn(Head(sock.to_backend),
            Dispatch([err |-> "", expts |-> expts, locations |-> locations,
                      doi |-> doi], Head(sock.to_backend)))
    /\ UNCHANGED << prog, file_type, frame_limit, pc, outf, axes, ext_info,
                    panel_2theta, det_rot, n_scan_info, args, call, ret,
                    reader, validator, fs, stdin >>

\* what is typed in the window
FileUrl == Url(<<"https://zenodo.org/records/", "5886687", "/files", "/s01f0001.cbf">>, 0)
ArchiveUrlText == Url(<<"https://zenodo.org/records/", "5886687", "/files/run1", ".tar", ".gz">>, 0)
NoUrl == Url(<<>>, 0)

\* the messages of the window (imgcif_app.MainWindow): add_data_files and
\* add_data_folder, set_expt_file, reset_files, set_download_details,
\* set_doi, set_file_format, save_cif
GuiMessages ==
    { Message("add_paths", {"paths"}, n, NoUrl, <<>>, NoneStr, NoDoi) : n \in {LoadFails, 1} }
    \cup { Message("set_expt", {"path"}, 2, NoUrl, <<>>, NoneStr, NoDoi),
           Message("reset", {}, 0, NoUrl, <<>>, NoneStr, NoDoi),
           Message("set_download_files", {"url"}, 0, FileUrl, <<>>, NoneStr, NoDoi),
           Message("set_download_archives", {"details"}, 0, ArchiveUrlText, <<"data">>,
                   NoneStr, NoDoi),
           Message("set_doi", {"doi"}, 0, NoUrl, <<>>, NoneStr, <<"10.5281/zenodo.", "1">>),
           Message("set_file_type", {"file_type"}, 0, NoUrl, <<>>, NoneStr, NoDoi),
           Message("save", {"path"}, 0, NoUrl, <<>>, NoneStr, NoDoi) }

\* messages another peer of the socket can send
OtherMessages ==
    { Message("set_download_archives", {"url", "local_dir"}, 0, ArchiveUrlText, dir,
              NoneStr, NoDoi) : dir \in { <<"data">>, <<"elsewhere">> } }
    \cup { Message("set_download_archives", {"url", "local_dir", "archive_type"}, 0,
                   ArchiveUrlText, <<"data">>, "ZIP", NoDoi),
           Message("state", {}, 0, NoUrl, <<>>, NoneStr, NoDoi) }

MaxMessages == 3

\* BackendManager.send_message, or the write of another peer
SendMessage ==
    /\ prog = "imgcif_backend"
    /\ Len(handled) + Len(sock.to_backend) < MaxMessages
    /\ \E m \in GuiMessages \cup OtherMessages :
          sock' = [sock EXCEPT !.to_backend = Append(@, m)]
    /\ UNCHANGED << prog, expts, locations, file_type, frame_limit, pc, outf, axes,
                    ext_info, err, panel_2theta, det_rot, n_scan_info, args, call, ret,
                    handled, doi, reader, validator, fs, stdin >>

\* Backend.__init__, and the socket after the connection is made
InitBackend ==
    /\ prog = "imgcif_backend"
    /\ pc = "loop"
    /\ expts = <<>>
    /\ locations = << PlaceholderUrl >>
    /\ doi = NoDoi
    /\ sock = NoSock
    /\ handled = <<>>
    /\ frame_limit = PreviewFrames
    /\ n_scan_info = 0
    /\ file_type = NoneStr
    /\ outf = <<>>
    /\ axes = NoAxes
    /\ ext_info = <<>>
    /\ err = NoErr
    /\ panel_2theta = <<>>
    /\ det_rot = <<>>
    /\ args = NoArgs
    /\ call = NoCall
    /\ ret = NoRet
    /\ reader = NoReader
    /\ validator = NoValidator
    /\ fs = NoFs
    /\ stdin = 0

NextBackend == SendMessage \/ BackendLoop

SpecBackend == InitBackend /\ [][NextBackend]_vars


\* =================================================================
\* The line readers of the socket (imgcif_backend.py, imgcif_app.py)
\* =================================================================
\* a byte is a one-character string; NL is b'\n'
NL == "\n"

\* recv(4096)
RecvSize == 4096

\* b''.join(chunks)
RECURSIVE Join(_)
Join(chunks) == IF chunks = <<>> THEN <<>> ELSE chunks[1] \o Join(Tail(chunks))

HasNL(b) == \E i \in 1..Len(b) : b[i] = NL

\* b.partition(b'\n') for b that holds a newline
Partition(b) ==
    LET k == CHOOSE i \in 1..Len(b) : b[i] = NL /\ \A j \in 1..(i - 1) : b[j] # NL
    IN [line_end |-> SubSeq(b, 1, k - 1), rest |-> SubSeq(b, k + 1, Len(b))]

\* a reader that yields the end of the line without what it had buffered
RECURSIVE line_helper_forgetful(_, _, _)
line_helper_forgetful(read_buffer, b, lines) ==
    IF HasNL(b)
    THEN line_helper_forgetful(<<>>, Partition(b).rest, Append(lines, Partition(b).line_end))
    ELSE [read_buffer |-> Append(read_buffer, b), lines |-> lines]

\* line_helper after recv returned the non-empty b: the lines it yields
\* and the buffer it keeps
RECURSIVE line_helper(_, _, _)
line_helper(read_buffer, b, lines) ==
    IF HasNL(b)
    THEN line_helper(<<>>, Partition(b).rest,
                     Append(lines, Join(Append(read_buffer, Partition(b).line_end))))
    ELSE [read_buffer |-> Append(read_buffer, b), lines |-> lines]

\* json.dumps([category, details], indent=None): one byte for the category
\* and one for the details, and no newline
json_dumps(category, details) ==
    << (IF category = "state" THEN "s" ELSE "o"), details >>

\* json.loads(line), unpacked into category and details
json_loads(line) ==
    IF Len(line) = 2 /\ line[1] \in {"s", "o"} /\ line[2] # NL
    THEN [err |-> "", category |-> IF line[1] = "s" THEN "state" ELSE "other",
          details |-> line[2]]
    ELSE [err |-> "JSONDecodeError", category |-> "", details |-> ""]

\* read_ready after recv returned b: the details it emits with state_update
\* and the buffer it keeps; an exception leaves the slot where it is
RECURSIVE read_ready(_, _, _)
ReadReadyLine(read_buffer, rest, lines, j) ==
    IF j.err # ""
    THEN [err |-> j.err, read_buffer |-> read_buffer, lines |-> lines]
    ELSE read_ready(<<>>, rest,
                    IF j.category = "state" THEN Append(lines, j.details) ELSE lines)

read_ready(read_buffer, b, lines) ==
    IF HasNL(b)
    THEN ReadReadyLine(read_buffer, Partition(b).rest, lines,
                       json_loads(Join(Append(read_buffer, Partition(b).line_end))))
    ELSE [err |-> "", read_buffer |-> Append(read_buffer, b), lines |-> lines]

\* the reader takes the first n bytes off the socket
Recv(side, n) ==
    sock' = [sock EXCEPT ![side] = SubSeq(@, n + 1, Len(@))]

LineHelperStep(r) ==
    reader' = [reader EXCEPT !.read_buffer = r.read_buffer, !.lines = r.lines]

\* one turn of line_helper's outer loop; recv returns b'' when the peer
\* has closed the socket, and the generator returns
LineHelper ==
    /\ prog = "line_helper"
    /\ pc = "recv"
    /\ IF sock.to_backend = <<>>
       THEN /\ pc' = "returned"
            /\ UNCHANGED << sock, reader >>
       ELSE /\ pc' = pc
            /\ \E n \in 1..Min(Len(sock.to_backend), RecvSize) :
                  /\ Recv("to_backend", n)
                  /\ LineHelperStep(line_helper(reader.read_buffer,
                                                SubSeq(sock.to_backend, 1, n),
                                                reader.lines))
    /\ UNCHANGED << prog, expts, locations, file_type, frame_limit, outf, axes,
                    ext_info, err, panel_2theta, det_rot, n_scan_info, args, call, ret,
                    handled, doi, validator, fs, stdin >>

MaxEofReads == 2

ReadReadyStep(r) ==
    /\ reader' = [reader EXCEPT !.read_buffer = r.read_buffer, !.lines = r.lines]
    /\ err' = IF r.err # "" THEN [type |-> r.err, at |-> "read_ready"] ELSE err

\* BackendManager.read_ready, called when the socket is readable: with
\* bytes, or at end of file, when recv returns b''
ReadReady ==
    /\ prog = "read_ready"
    /\ pc = "recv"
    /\ IF sock.to_frontend = <<>>
       THEN /\ reader.eof < MaxEofReads
            /\ reader' = [reader EXCEPT !.read_buffer = Append(@, <<>>), !.eof = @ + 1]
            /\ UNCHANGED << sock, err >>
       ELSE \E n \in 1..Min(Len(sock.to_frontend), RecvSize) :
               /\ Recv("to_frontend", n)
               /\ ReadReadyStep(read_ready(reader.read_buffer,
                                           SubSeq(sock.to_frontend, 1, n),
                                           reader.lines))
    /\ UNCHANGED << prog, expts, locations, file_type, frame_limit, pc, outf, axes,
                    ext_info, panel_2theta, det_rot, n_scan_info, args, call, ret,
                    handled, doi, validator, fs, stdin >>

MaxStream == 5
MaxLines == 2

RECURSIVE ByteStreams(_)
\* the byte streams of length n
ByteStreams(n) ==
    IF n = 0 THEN { <<>> }
    ELSE { Append(s, c) : s \in ByteStreams(n - 1), c \in {"a", "b", NL} }

RECURSIVE StateStreams(_)
\* what the backend writes in n sendall calls: n state messages, each
\* json.dumps(['state', ...]) + b'\n'
StateStreams(n) ==
    IF n = 0 THEN { <<>> }
    ELSE { s \o json_dumps("state", d) \o << NL >> :
              s \in StateStreams(n - 1), d \in {"p", "q"} }

\* the bytes the peer has written, or a part of them when the peer is
\* still writing
Written ==
    [ side \in {"to_backend", "to_frontend"} |->
        IF side = "to_backend"
        THEN UNION { ByteStreams(n) : n \in 0..MaxStream }
        ELSE UNION { { SubSeq(s, 1, k) : k \in 0..Len(s) } :
                     s \in UNION { StateStreams(n) : n \in 0..MaxLines } } ]

\* a reader and the bytes in flight to it
InitLines ==
    /\ \E side \in {"to_backend", "to_frontend"} : \E s \in Written[side] :
          /\ prog = (IF side = "to_backend" THEN "line_helper" ELSE "read_ready")
          /\ sock = [to_backend |-> IF side = "to_backend" THEN s ELSE <<>>,
                     to_frontend |-> IF side = "to_frontend" THEN s ELSE <<>>,
                     written |-> s]
    /\ pc = "recv"
    /\ reader = NoReader
    /\ expts = <<>>
    /\ locations = <<>>
    /\ frame_limit = NoLimit
    /\ n_scan_info = 0
    /\ file_type = NoneStr
    /\ outf = <<>>
    /\ axes = NoAxes
    /\ ext_info = <<>>
    /\ err = NoErr
    /\ panel_2theta = <<>>
    /\ det_rot = <<>>
    /\ args = NoArgs
    /\ call = NoCall
    /\ ret = NoRet
    /\ handled = <<>>
    /\ doi = NoDoi
    /\ validator = NoValidator
    /\ fs = NoFs
    /\ stdin = 0

NextLines == LineHelper \/ ReadReady

SpecLines == InitLines /\ [][NextLines]_vars

\* -----------------------------------------------------------------
\* Properties of the line readers
\* -----------------------------------------------------------------
\* the lines that end with a newline in a byte string, and the bytes after
\* its last newline
RECURSIVE SplitLines(_, _, _)
SplitLines(bytes, cur, acc) ==
    IF bytes = <<>> THEN [lines |-> acc, rest |-> cur]
    ELSE IF Head(bytes) = NL THEN SplitLines(Tail(bytes), <<>>, Append(acc, cur))
    ELSE SplitLines(Tail(bytes), Append(cur, Head(bytes)), acc)

\* the bytes the reader has received so far
Received ==
    SubSeq(sock.written, 1,
           Len(sock.written) - Len(sock.to_backend) - Len(sock.to_frontend))

LinesReceived == SplitLines(Received, <<>>, <<>>)

Green == "QLineEdit {background: rgb(180, 255, 180);}"
Red == "QLineEdit {background: rgb(255, 128, 128);}"

\* the status codes a check can end with: 600 when requests.get raises
StatusCodes == {200, 404, 600}

\* AsyncValidator.checked without the comparison of url and text
checked_any(v, url, status_code) ==
    IF status_code < 400
    THEN [v EXCEPT !.style = Green, !.changed_valid = Append(@, url)]
    ELSE [v EXCEPT !.style = Red]

\* AsyncValidator.checked
checked(v, url, status_code) ==
    IF url # v.text THEN v
    ELSE IF status_code < 400
    THEN [v EXCEPT !.style = Green, !.changed_valid = Append(@, url)]
    ELSE [v EXCEPT !.style = Red]

\* AsyncValidator.check: starts a thread unless the field is empty
check(v) ==
    IF v.text = "" THEN v
    ELSE [v EXCEPT !.threads = Append(@, v.text), !.started = @ + 1]

\* the other variables of the window's validator
ValidatorRest ==
    /\ prog = "imgcif_app"
    /\ UNCHANGED << prog, expts, locations, file_type, frame_limit, pc, outf, axes,
                    ext_info, err, panel_2theta, det_rot, n_scan_info, args, call, ret,
                    sock, handled, doi, reader, fs, stdin >>

MaxChecks == 3

\* the user edits the text: textChanged calls reset_style and
\* QLineEditDebounce.text_changed
TextChanged ==
    /\ \E t \in {"", "u", "v"} :
          /\ t # validator.text
          /\ validator' = [validator EXCEPT !.text = t, !.style = "", !.timer = TRUE]
    /\ ValidatorRest

\* the debounce timer times out: fire emits changed, which calls check
TimerFires ==
    /\ validator.timer
    /\ validator.started < MaxChecks
    /\ validator' = check([validator EXCEPT !.timer = FALSE])
    /\ ValidatorRest

\* QLineEditDebounce.editing_finished with the timer active
EditingFinished ==
    /\ validator.timer
    /\ validator.started < MaxChecks
    /\ validator' = check([validator EXCEPT !.timer = FALSE])
    /\ ValidatorRest

\* s without its i-th element
RemoveAt(s, i) == SubSeq(s, 1, i - 1) \o SubSeq(s, i + 1, Len(s))

\* UrlCheckerThread.run: any running thread ends, with any status, and
\* emits check_result(url, status), which is queued for the GUI thread
ThreadRun ==
    /\ \E i \in 1..Len(validator.threads) : \E status_code \in StatusCodes :
          validator' = [validator EXCEPT
                           !.threads = RemoveAt(@, i),
                           !.results = Append(@, [url |-> validator.threads[i],
                                                  status_code |-> status_code])]
    /\ ValidatorRest

CheckedStep(v, r) ==
    validator' = checked([v EXCEPT !.results = Tail(@)], r.url, r.status_code)

\* the GUI thread delivers the oldest queued check_result to checked
Checked ==
    /\ validator.results # <<>>
    /\ CheckedStep(validator, Head(validator.results))
    /\ ValidatorRest

\* the window after setupUi: an empty field with the default style
InitValidator ==
    /\ prog = "imgcif_app"
    /\ pc = "exec"
    /\ validator = NoValidator
    /\ expts = <<>>
    /\ locations = <<>>
    /\ frame_limit = NoLimit
    /\ n_scan_info = 0
    /\ file_type = NoneStr
    /\ outf = <<>>
    /\ axes = NoAxes
    /\ ext_info = <<>>
    /\ err = NoErr
    /\ panel_2theta = <<>>
    /\ det_rot = <<>>
    /\ args = NoArgs
    /\ call = NoCall
    /\ ret = NoRet
    /\ sock = NoSock
    /\ handled = <<>>
    /\ doi = NoDoi
    /\ reader = NoReader
    /\ fs = NoFs
    /\ stdin = 0

NextValidator ==
    \/ TextChanged
    \/ TimerFires
    \/ EditingFinished
    \/ ThreadRun
    \/ Checked

SpecValidator == InitValidator /\ [][NextValidator]_vars

\* -----------------------------------------------------------------
\* Properties of the URL validator
\* -----------------------------------------------------------------
\* checked is called with the oldest queued result
CheckedCalled ==
    /\ validator.results # <<>>
    /\ validator'.results = Tail(validator.results)

\* C28: with any number of checker threads that end in any order,
\* changed_valid(url) is emitted only by checked, for a url that is the
\* text of the line edit when the result arrives and a status below 400;
\* a result for a url that is no longer the text changes neither the
\* style nor emits a signal
C28_OnlyCurrentTextAccepted ==
    [][ /\ validator'.changed_valid # validator.changed_valid =>
              /\ CheckedCalled
              /\ Head(validator.results).url = validator.text
              /\ Head(validator.results).status_code < 400
              /\ validator'.changed_valid
                    = Append(validator.changed_valid, validator.text)
        /\ (CheckedCalled /\ Head(validator.results).url # validator.text) =>
              /\ validator'.style = validator.style
              /\ validator'.changed_valid = validator.changed_valid ]_vars

\* the check of the current text was accepted while an older check still
\* ran; its result, for a text edited since, now waits to be delivered
C28_Witness ==
    /\ validator.changed_valid = << validator.text >>
    /\ validator.style = Green
    /\ validator.results # <<>>
    /\ validator.results[1].url # validator.text
    /\ validator.results[1].status_code < 400

\* =================================================================
\* The interactive flow (interactive.py)
\* =================================================================
\* main from the preview on; expts, locations (download_info) and doi are
\* what the questions before it gave
InteractiveRest ==
    /\ prog = "interactive"
    /\ UNCHANGED << prog, expts, file_type, frame_limit, axes, ext_info, panel_2theta,
                    det_rot, n_scan_info, args, call, ret, sock, doi, reader,
                    validator >>

PreviewStep(r) ==
    /\ locations' = r.locations
    /\ IF r.out.err = ""
       THEN /\ outf' = << Block("#", <<"ImgCIF preview - press Q to go back">>, <<>>) >>
                       \o r.out.text
            /\ pc' = "input_filename"
            /\ err' = err
       ELSE /\ outf' = outf
            /\ pc' = "raised"
            /\ err' = [type |-> r.out.err, at |-> "preview"]

\* sio = io.StringIO(); make_cif(expts, sio, data_name="preview", ...,
\* frame_limit=5); run(["less"], ...)
InteractivePreview ==
    /\ pc = "preview"
    /\ PreviewStep(make_cif(expts, "preview", locations, doi, NoneStr, PreviewFrames))
    /\ InteractiveRest
    /\ UNCHANGED << handled, fs, stdin >>

\* input(prompt): the line a the user types, EOFError at the end of input
Input(a, to) ==
    /\ stdin > 0
    /\ stdin' = stdin - 1
    /\ handled' = Append(handled, a)
    /\ pc' = to
    /\ err' = err

InputEof(at) ==
    /\ stdin = 0
    /\ pc' = "raised"
    /\ err' = [type |-> "EOFError", at |-> at]
    /\ UNCHANGED << stdin, handled >>

\* what the user types at the two prompts
Answers == {"", "out.cif", "y", "n", "N", "x"}

\* input(...) or "generated.cif"
OrGenerated(a) == IF a = "" THEN "generated.cif" ELSE a

\* the output path after the filename prompt
out_filename == OrGenerated(handled[1])

\* Path.stem of the names that are typed
Stem(name) ==
    CASE name = "generated.cif" -> "generated"
      [] name = "out.cif" -> "out"
      [] OTHER -> name

\* str.lower of the answers that are typed
Lower(s) ==
    CASE s = "N" -> "n"
      [] s = "Y" -> "y"
      [] OTHER -> s

\* out_filename = Path(input("Output filename [generated.cif]: ") or
\* "generated.cif"), and the tests of the path that follow
InputFilename ==
    /\ pc = "input_filename"
    /\ \/ InputEof("input_filename")
       \/ \E a \in Answers :
             IF fs[OrGenerated(a)].kind = "file" THEN Input(a, "input_overwrite")
             ELSE IF fs[OrGenerated(a)].kind # "absent" THEN Input(a, "exit")
             ELSE Input(a, "open")
    /\ InteractiveRest
    /\ UNCHANGED << locations, outf, fs >>

\* rep = input("Overwrite ([y]/n): ").lower() or "y", until it is y or n;
\* "n" prints "No output written" and the flow goes on
InputOverwrite ==
    /\ pc = "input_overwrite"
    /\ \/ InputEof("input_overwrite")
       \/ \E a \in Answers :
             IF Lower(a) \in {"", "y", "n"}
             THEN Input(a, "open")
             ELSE Input(a, "input_overwrite")
    /\ InteractiveRest
    /\ UNCHANGED << locations, outf, fs >>

WriteStep(name, r) ==
    /\ locations' = r.locations
    /\ IF r.out.err = ""
       THEN /\ fs' = [fs EXCEPT ![name] = [kind |-> "file", content |-> r.out.text]]
            /\ pc' = "done"
            /\ err' = err
       ELSE /\ fs' = [fs EXCEPT ![name] = [kind |-> "file", content |-> <<>>]]
            /\ pc' = "raised"
            /\ err' = [type |-> r.out.err, at |-> "write"]

\* with out_filename.open("w") as f: make_cif(expts, f,
\* data_name=out_filename.stem, ..., frame_limit=5)
WriteOutput ==
    /\ pc = "open"
    /\ WriteStep(out_filename,
                 make_cif(expts, Stem(out_filename), locations, doi, NoneStr,
                          PreviewFrames))
    /\ InteractiveRest
    /\ UNCHANGED << outf, handled, stdin >>

MaxAnswers == 3
LongScan == 6

\* what the output file holds when it is there before the run
OldContent == << Block("data_", <<"old">>, <<>>) >>

\* the paths the user can name, each absent, a file or a directory
Disks ==
    { [name \in ({"generated.cif"} \cup Answers) \ {""} |->
          IF name = "generated.cif" THEN g
          ELSE IF name = "out.cif" THEN o
          ELSE Absent] :
      g \in { Absent, [kind |-> "file", content |-> OldContent] },
      o \in { Absent, [kind |-> "file", content |-> OldContent],
              [kind |-> "dir", content |-> <<>>] } }

\* main after get_doi: one archive for all scans, or one per scan
InitInteractive ==
    /\ prog = "interactive"
    /\ pc = "preview"
    /\ \E n \in 1..2 : \E fr \in {1, LongScan} :
          /\ expts = [i \in 1..n |->
                         Experiment(SingleAxis(YHat), << StdPanel >>,
                                    ScanOf(fr, 0, 10000), CbfImageset)]
          /\ \E nloc \in {1, n} :
                locations = [i \in 1..nloc |-> Location("cbf-archive", i)]
    /\ doi \in { NoDoi, <<"10.5281/zenodo.", "5886687">> }
    /\ fs \in Disks
    /\ stdin \in 0..MaxAnswers
    /\ handled = <<>>
    /\ frame_limit = PreviewFrames
    /\ n_scan_info = Len(expts)
    /\ file_type = NoneStr
    /\ outf = <<>>
    /\ axes = NoAxes
    /\ ext_info = <<>>
    /\ err = NoErr
    /\ panel_2theta = <<>>
    /\ det_rot = <<>>
    /\ args = NoArgs
    /\ call = NoCall
    /\ ret = NoRet
    /\ sock = NoSock
    /\ reader = NoReader
    /\ validator = NoValidator

NextInteractive ==
    \/ InteractivePreview
    \/ InputFilename
    \/ InputOverwrite
    \/ WriteOutput

SpecInteractive == InitInteractive /\ [][NextInteractive]_vars

\* -----------------------------------------------------------------
\* Properties of the interactive flow
\* -----------------------------------------------------------------
\* the user answered n (or N) to the overwrite prompt
AnsweredNo ==
    /\ pc \in {"open", "done", "raised"}
    /\ Len(handled) >= 2
    /\ Lower(handled[Len(handled)]) = "n"

\* C29: when the chosen output file exists and the user answers n to the
\* overwrite prompt, the file is left as it was and nothing is written
C29_NoOverwriteAfterNo ==
    AnsweredNo => fs[out_filename] = [kind |-> "file", content |-> OldContent]

\* the rows of the table name in a text that are not comment rows
RowsIn(text, name) ==
    SelectSeq(text[CHOOSE i \in 1..Len(text) : text[i].name = name].rows,
              LAMBDA r : ~r.hash)

\* C30: the file written at the end is the full output, with a row for
\* every frame of every scan; only the preview is cut to 5 frames a scan
C30_OutputIsFull ==
    pc = "done" =>
        Len(RowsIn(fs[out_filename].content, "_diffrn_data_frame"))
           = SumSeq(NumImages(expts))

\* =================================================================
\* Properties of the GUI backend
\* =================================================================
\* the turn of the loop sends a state message
StateSent == Len(sock'.to_frontend) = Len(sock.to_frontend) + 1

\* C23: while one download location is configured (the placeholder, or
\* the one set by set_download_files / set_download_archives), a preview
\* that fails in state() never fails because the number of locations is
\* neither 1 nor the number of experiments, whatever add_paths, set_expt
\* and reset did to the number of experiments since the last state()
C23_NoLocationCountMismatch ==
    [][ (/\ StateSent
         /\ expts' # <<>>
         /\ sock'.to_frontend[Len(sock'.to_frontend)].cif_preview.none)
        => Len(locations') \in {1, Len(expts')} ]_vars


\* the command's name is known, its keywords are the handler's parameters
\* and the handler returns
Accepted(m) ==
    /\ m.command \in COMMANDS
    /\ Required(m.command) \subseteq m.keys
    /\ m.keys \subseteq Required(m.command) \cup Optional(m.command)
    /\ m.command \in {"add_paths", "set_expt"} => m.n # LoadFails

\* the Backend object after the handler of m has run
AfterHandler(m) ==
    Dispatch([err |-> "", expts |-> expts, locations |-> locations, doi |-> doi], m)

\* make_cif raises for the preview of the Backend object b
PreviewFails(b) ==
    /\ b.expts # <<>>
    /\ make_cif(b.expts, "preview", b.locations, NoDoi, NoneStr, PreviewFrames).out.err # ""

\* C26: the loop sends exactly one state message for a command whose name
\* is in COMMANDS and whose handler returns, and nothing for any other
\* command; no command ends the loop; and when the preview fails inside
\* state() the state message is still sent, with no preview
C26_OneStatePerAcceptedCommand ==
    [][ handled' # handled =>
          /\ pc' = "loop"
          /\ handled' = Append(handled, Head(sock.to_backend))
          /\ IF Accepted(Head(sock.to_backend))
             THEN /\ StateSent
                  /\ sock'.to_frontend[Len(sock'.to_frontend)].cif_preview.none
                        = PreviewFails(AfterHandler(Head(sock.to_backend)))
             ELSE sock'.to_frontend = sock.to_frontend ]_vars

\* the loop went on after a command it rejected, and a later command was
\* answered by a state message without preview
C26_Witness ==
    /\ Len(handled) = 3
    /\ ~Accepted(handled[1])
    /\ Accepted(handled[2]) /\ Accepted(handled[3])
    /\ Len(sock.to_frontend) = 2
    /\ sock.to_frontend[2].cif_preview.none
    /\ ~sock.to_frontend[1].cif_preview.none


\* C27: every message the window can send is accepted by the dispatcher
\* (its command is in COMMANDS and its keywords are the parameters of the
\* handler), so that the loop answers it with a state message unless the
\* files it names cannot be loaded
C27_GuiMessagesAnswered ==
    [][ (/\ handled' # handled
         /\ Head(sock.to_backend) \in GuiMessages
         /\ Head(sock.to_backend).n # LoadFails)
        => /\ Head(sock.to_backend).command \in COMMANDS
           /\ Required(Head(sock.to_backend).command) \subseteq Head(sock.to_backend).keys
           /\ Head(sock.to_backend).keys \subseteq
                 Required(Head(sock.to_backend).command)
                 \cup Optional(Head(sock.to_backend).command)
           /\ StateSent ]_vars

====
